---- MODULE Spec2Model ----
(***************************************************************************)
(* Subtitle timing generator of src/utils/srtGenerator.ts:                 *)
(* sentence segmentation, duration allocation, time formatting and SRT     *)
(* serialization.  Strings are sequences of one-character strings;         *)
(* numbers are IEEE-754 doubles, computed exactly (round-to-nearest-even   *)
(* on 53 significant bits) over multi-limb fixed-point values.             *)
(***************************************************************************)
EXTENDS Integers, Sequences, FiniteSets, TLC

(***************************************************************************)
(* JavaScript numbers.  A non-negative double is held exactly as a tuple   *)
(* of limbs <<ip, f1, .., fn>>: ip is the integer part, f1..fn the         *)
(* fraction in base 2^LimbBits.  Every double used is a multiple of        *)
(* 2^-(LimbBits*FracLimbs), so sums, products by an integer and remainders *)
(* are exact before the one rounding to MantBits significant bits.         *)
(***************************************************************************)
LimbBits == 15

FracLimbs == 5

MantBits == 53

LimbBase == 2^LimbBits

NLimbs == FracLimbs + 1

FracBits == LimbBits * FracLimbs

FromInt(n) == [i \in 1..NLimbs |-> IF i = 1 THEN n ELSE 0]

RECURSIVE Carry(_, _, _)
Carry(v, i, c) ==
    IF i = 1 THEN [v EXCEPT ![1] = v[1] + c]
    ELSE LET t == v[i] + c
         IN  Carry([v EXCEPT ![i] = t % LimbBase], i - 1, t \div LimbBase)

Normalize(v) == Carry(v, NLimbs, 0)

\* exact sum of two values
BigAdd(a, b) == Normalize([i \in 1..NLimbs |-> a[i] + b[i]])

\* exact product of a value by a small non-negative integer
BigMul(a, k) == Normalize([i \in 1..NLimbs |-> a[i] * k])

\* long division of a value by a small positive integer: truncated
\* quotient and whether a remainder is left (the sticky bit)
RECURSIVE DivStep(_, _, _, _, _)
DivStep(a, n, i, r, acc) ==
    IF i > NLimbs THEN [q |-> acc, sticky |-> (r # 0)]
    ELSE LET cur == r * (IF i = 1 THEN 1 ELSE LimbBase) + a[i]
         IN  DivStep(a, n, i + 1, cur % n, [acc EXCEPT ![i] = cur \div n])

BigDiv(a, n) == DivStep(a, n, 1, 0, FromInt(0))

RECURSIVE BitLen(_)
BitLen(n) == IF n = 0 THEN 0 ELSE 1 + BitLen(n \div 2)

\* index of the first non-zero limb, NLimbs + 1 when the value is zero
RECURSIVE FirstLimb(_, _)
FirstLimb(v, i) ==
    IF i > NLimbs THEN i ELSE IF v[i] # 0 THEN i ELSE FirstLimb(v, i + 1)

\* number of fraction bits a double of this magnitude can hold
KeepBits(v) ==
    LET j == FirstLimb(v, 1)
    IN  IF j > NLimbs THEN FracBits
        ELSE LimbBits * (j - 1) - BitLen(v[j]) + MantBits

\* round-to-nearest, ties-to-even, on MantBits significant bits
RoundNearestEven(v, sticky) ==
    LET r == KeepBits(v)
    IN  IF r >= FracBits THEN v
        ELSE LET t      == (r \div LimbBits) + 2
                 s      == r % LimbBits
                 unit   == 2^(LimbBits - s)
                 rem    == v[t] % unit
                 half   == unit \div 2
                 tail   == sticky \/ \E k \in (t + 1)..NLimbs : v[k] # 0
                 lsbOdd == IF s > 0 THEN (v[t] \div unit) % 2 = 1
                                    ELSE v[t - 1] % 2 = 1
                 up     == rem > half \/ (rem = half /\ (tail \/ lsbOdd))
                 trunc  == [i \in 1..NLimbs |->
                               IF i < t THEN v[i]
                               ELSE IF i = t THEN v[t] - rem ELSE 0]
             IN  IF up THEN Normalize([trunc EXCEPT ![t] = @ + unit])
                 ELSE trunc

\* a + b
FAdd(a, b) == RoundNearestEven(BigAdd(a, b), FALSE)

\* a * k, k a small non-negative integer
FMulInt(a, k) == RoundNearestEven(BigMul(a, k), FALSE)

\* a / n, n a small positive integer
FDivInt(a, n) ==
    LET d == BigDiv(a, n) IN RoundNearestEven(d.q, d.sticky)

\* a % n, n a positive integer: exact in IEEE arithmetic
FMod(a, n) == [a EXCEPT ![1] = a[1] % n]

\* Math.floor of a non-negative double
Floor(a) == a[1]

RECURSIVE CmpFrom(_, _, _)
CmpFrom(a, b, i) ==
    IF i > NLimbs THEN 0
    ELSE IF a[i] < b[i] THEN -1
    ELSE IF a[i] > b[i] THEN 1
    ELSE CmpFrom(a, b, i + 1)

FLess(a, b) == CmpFrom(a, b, 1) < 0

FLeq(a, b) == CmpFrom(a, b, 1) <= 0

FMax(a, b) == IF FLess(a, b) THEN b ELSE a

FMin(a, b) == IF FLess(b, a) THEN b ELSE a

\* -a, exact; a negative value keeps its fraction limbs non-negative
\* (value = first limb + fraction), so the comparisons above still order it
FNeg(a) == Normalize([i \in 1..NLimbs |-> 0 - a[i]])

\* the double written as the decimal literal n/d (0.3 is Lit(3, 10))
Lit(n, d) == FDivInt(FromInt(n), d)

\* a double whose value is m / 2^k with m small: <<m, k>>, m odd or zero
RECURSIVE Reduce(_, _)
Reduce(m, k) ==
    IF m # 0 /\ m % 2 = 0 /\ k > 0 THEN Reduce(m \div 2, k - 1) ELSE <<m, k>>

Dyadic(b) == Reduce(b[1] * LimbBase + b[2], LimbBits)

\* a / b for a divisor b with a short mantissa (all fraction bits in the
\* first fraction limb): a / (m / 2^k) = (a * 2^k) / m, rounded once
FDiv(a, b) ==
    LET mk == Dyadic(b)
        d  == BigDiv(BigMul(a, 2^mk[2]), mk[1])
    IN  RoundNearestEven(d.q, d.sticky)


(***************************************************************************)
(* Strings: sequences of one-character strings.                            *)
(***************************************************************************)
\* what \s matches and trim() strips
WhiteSpace == {" ", "\n", "\t"}

\* the character class [.!?]
Punct == {".", "!", "?"}

RECURSIVE TrimStart(_)
TrimStart(s) ==
    IF s # <<>> /\ Head(s) \in WhiteSpace THEN TrimStart(Tail(s)) ELSE s

RECURSIVE TrimEnd(_)
TrimEnd(s) ==
    IF s # <<>> /\ s[Len(s)] \in WhiteSpace
    THEN TrimEnd(SubSeq(s, 1, Len(s) - 1)) ELSE s

\* String.prototype.trim
Trim(s) == TrimEnd(TrimStart(s))

\* first index at or after q whose character is not in S (a greedy S+ or S*)
RECURSIVE RunEnd(_, _, _)
RunEnd(s, q, S) ==
    IF q <= Len(s) /\ s[q] \in S THEN RunEnd(s, q + 1, S) ELSE q

\* /[.!?]+\s+/ tried at position q: the index after the match, 0 if none
MatchSentenceEnd(s, q) ==
    LET e1 == RunEnd(s, q, Punct)
        e2 == RunEnd(s, e1, WhiteSpace)
    IN  IF e1 > q /\ e2 > e1 THEN e2 ELSE 0

\* /,\s+/ tried at position q: the index after the match, 0 if none
MatchComma(s, q) ==
    LET e == RunEnd(s, q + 1, WhiteSpace)
    IN  IF q <= Len(s) /\ s[q] = "," /\ e > q + 1 THEN e ELSE 0

\* first index at or after q whose character is in S, Len(s) + 1 if none
\* (the next position at which a pattern starting with [S] can match)
NextOf(s, q, S) ==
    LET c == {i \in q..Len(s) : s[i] \in S}
    IN  IF c = {} THEN Len(s) + 1 ELSE CHOOSE i \in c : \A j \in c : i <= j

\* script.split(/([.!?]+\s+)/): pieces and captured separators alternate.
\* p is the start of the current piece, q the position the pattern is
\* tried from.
RECURSIVE SplitSentenceEnds(_, _, _, _)
SplitSentenceEnds(s, p, q, acc) ==
    LET n == NextOf(s, q, Punct)
        e == MatchSentenceEnd(s, n)
    IN  IF n > Len(s) THEN Append(acc, SubSeq(s, p, Len(s)))
        ELSE IF e # 0
             THEN SplitSentenceEnds(s, e, e,
                      acc \o <<SubSeq(s, p, n - 1), SubSeq(s, n, e - 1)>>)
             ELSE SplitSentenceEnds(s, p, n + 1, acc)

\* sentence.split(/,\s+/): pieces only
RECURSIVE SplitCommas(_, _, _, _)
SplitCommas(s, p, q, acc) ==
    LET n == NextOf(s, q, {","})
        e == MatchComma(s, n)
    IN  IF n > Len(s) THEN Append(acc, SubSeq(s, p, Len(s)))
        ELSE IF e # 0
             THEN SplitCommas(s, e, e, Append(acc, SubSeq(s, p, n - 1)))
             ELSE SplitCommas(s, p, n + 1, acc)

(***************************************************************************)
(* splitIntoSentences                                                      *)
(***************************************************************************)
\* mutant: the sentence is pushed without trim()
RECURSIVE ReduceSentencesUntrimmed(_, _, _)
ReduceSentencesUntrimmed(arr, k, acc) ==
    IF k > Len(arr) THEN acc
    ELSE IF (k - 1) % 2 = 0 /\ Trim(arr[k]) # <<>>
         THEN LET sentence ==
                      arr[k] \o (IF k + 1 <= Len(arr) THEN arr[k + 1] ELSE <<>>)
              IN  ReduceSentencesUntrimmed(arr, k + 1, Append(acc, sentence))
         ELSE ReduceSentencesUntrimmed(arr, k + 1, acc)

\* the reduce callback, run over arr from the (1-based) position k
RECURSIVE ReduceSentences(_, _, _)
ReduceSentences(arr, k, acc) ==
    IF k > Len(arr) THEN acc
    ELSE IF (k - 1) % 2 = 0 /\ Trim(arr[k]) # <<>>
         THEN LET sentence ==
                      arr[k] \o (IF k + 1 <= Len(arr) THEN arr[k + 1] ELSE <<>>)
              IN  ReduceSentences(arr, k + 1, Append(acc, Trim(sentence)))
         ELSE ReduceSentences(arr, k + 1, acc)

\* the local `sentences`: split on sentence ends, then reduce
SentencesOf(script) ==
    ReduceSentences(SplitSentenceEnds(script, 1, 1, <<>>), 1, <<>>)

MaxSentenceLength == 100

\* parts.forEach: every part but the last gets its comma back
PushParts(parts) ==
    [i \in 1..Len(parts) |->
        IF i < Len(parts) THEN Append(parts[i], ",") ELSE parts[i]]

\* mutant: sentence.length >= 100
PushSentenceFrom100(sentence) ==
    IF Len(sentence) >= MaxSentenceLength
    THEN PushParts(SplitCommas(sentence, 1, 1, <<>>))
    ELSE <<sentence>>

\* the forEach callback, for one sentence
PushSentence(sentence) ==
    IF Len(sentence) > MaxSentenceLength
    THEN PushParts(SplitCommas(sentence, 1, 1, <<>>))
    ELSE <<sentence>>

RECURSIVE ForEachSentence(_, _, _)
ForEachSentence(sentences_, k, acc) ==
    IF k > Len(sentences_) THEN acc
    ELSE ForEachSentence(sentences_, k + 1, acc \o PushSentence(sentences_[k]))

NonEmpty(s) == Len(Trim(s)) > 0

\* the local `result`, filtered as returned
ResultOf(sentences_) ==
    SelectSeq(ForEachSentence(sentences_, 1, <<>>), NonEmpty)

splitIntoSentences(script_) == ResultOf(SentencesOf(script_))

(***************************************************************************)
(* formatSRTTime                                                           *)
(***************************************************************************)
Digits == <<"0", "1", "2", "3", "4", "5", "6", "7", "8", "9">>

\* String(n) for an integer n >= 0
RECURSIVE NumberToString(_)
NumberToString(n) ==
    IF n < 10 THEN <<Digits[n + 1]>>
    ELSE Append(NumberToString(n \div 10), Digits[(n % 10) + 1])

\* padStart that never pads
PadStartNone(s, targetLength, pad) == s

\* String.prototype.padStart(targetLength, pad), pad one character
RECURSIVE PadStart(_, _, _)
PadStart(s, targetLength, pad) ==
    IF Len(s) >= targetLength THEN s
    ELSE PadStart(<<pad>> \o s, targetLength, pad)

hours(seconds_) == Floor(FDivInt(seconds_, 3600))

minutes(seconds_) == Floor(FDivInt(FMod(seconds_, 3600), 60))

secs(seconds_) == Floor(FMod(seconds_, 60))

milliseconds(seconds_) == Floor(FMulInt(FMod(seconds_, 1), 1000))

formatSRTTime(seconds_) ==
    PadStart(NumberToString(hours(seconds_)), 2, "0") \o <<":">>
    \o PadStart(NumberToString(minutes(seconds_)), 2, "0") \o <<":">>
    \o PadStart(NumberToString(secs(seconds_)), 2, "0") \o <<",">>
    \o PadStart(NumberToString(milliseconds(seconds_)), 3, "0")

(***************************************************************************)
(* generateSRT                                                             *)
(***************************************************************************)
\* Math.min(maxDuration, charCount / charsPerSecond) for charCount >= 1:
\* the quotient is +Infinity when charsPerSecond is 0 and negative when it
\* is negative
MinOfQuotient(maxDuration, charCount, charsPerSecond) ==
    IF charsPerSecond = FromInt(0) THEN maxDuration
    ELSE IF FLess(charsPerSecond, FromInt(0))
    THEN FMin(maxDuration,
              FNeg(FDiv(FromInt(charCount), FNeg(charsPerSecond))))
    ELSE FMin(maxDuration, FDiv(FromInt(charCount), charsPerSecond))

\* mutant: Math.max(maxDuration, charCount / charsPerSecond), as above
MaxOfQuotient(maxDuration, charCount, charsPerSecond) ==
    IF charsPerSecond = FromInt(0) THEN FromInt(LimbBase)
    ELSE IF FLess(charsPerSecond, FromInt(0)) THEN maxDuration
    ELSE FMax(maxDuration, FDiv(FromInt(charCount), charsPerSecond))

\* mutant: Math.min and Math.max exchanged
DurationSwapped(charCount, opts) ==
    FMin(opts.minDuration,
         MaxOfQuotient(opts.maxDuration, charCount, opts.charsPerSecond))

\* the duration of one sentence (the forEach callback's `duration`)
Duration(charCount, opts) ==
    FMax(opts.minDuration,
         MinOfQuotient(opts.maxDuration, charCount, opts.charsPerSecond))

\* mutant: endTime formatted from the duration alone
SegmentEndIsDuration(sentence, index, time, duration) ==
    [index     |-> index + 1,
     startTime |-> formatSRTTime(time),
     endTime   |-> formatSRTTime(duration),
     text      |-> Trim(sentence)]

\* mutant: the forEach index used as it is
SegmentZeroBased(sentence, index, time, duration) ==
    [index     |-> index,
     startTime |-> formatSRTTime(time),
     endTime   |-> formatSRTTime(FAdd(time, duration)),
     text      |-> Trim(sentence)]

\* the segment pushed for the sentence at (0-based) index
Segment(sentence, index, time, duration) ==
    [index     |-> index + 1,
     startTime |-> formatSRTTime(time),
     endTime   |-> formatSRTTime(FAdd(time, duration)),
     text      |-> Trim(sentence)]

\* mutant: currentTime += gapBetweenSubtitles
AdvanceGapOnly(time, duration, gap) == FAdd(time, gap)

\* mutant: currentTime += duration
AdvanceNoGap(time, duration, gap) == FAdd(time, duration)

\* currentTime += duration + gapBetweenSubtitles
Advance(time, duration, gap) == FAdd(time, FAdd(duration, gap))

\* the map callback: one SRT block
Block(segment) ==
    NumberToString(segment.index) \o <<"\n">>
    \o segment.startTime \o <<" ", "-", "-", ">", " ">> \o segment.endTime
    \o <<"\n">> \o segment.text \o <<"\n">>

\* Array.prototype.join
RECURSIVE Join(_, _)
Join(strs, sep) ==
    IF strs = <<>> THEN <<>>
    ELSE IF Len(strs) = 1 THEN strs[1]
    ELSE strs[1] \o sep \o Join(Tail(strs), sep)

\* mutant: join('')
SerializeNoBlankLine(segs) == Join([i \in 1..Len(segs) |-> Block(segs[i])], <<>>)

\* mutant: a newline after the last block, also when there is no block
SerializeTrailingNewline(segs) ==
    Join([i \in 1..Len(segs) |-> Block(segs[i])], <<"\n">>) \o <<"\n">>

Serialize(segs) == Join([i \in 1..Len(segs) |-> Block(segs[i])], <<"\n">>)

(***************************************************************************)
(* Inputs.  Scripts are built from items (a word followed by a separator); *)
(* the long words put a sentence on either side of MaxSentenceLength.      *)
(***************************************************************************)
LongWord == 49

MidWord == 12

MaxItems == 2

MaxSrtItems == 3

Word(c, n) == [i \in 1..n |-> c]

Words == {<<>>, <<"a">>, Word("w", LongWord), Word("v", LongWord + 1)}

Separators ==
    {<<>>, <<".">>, <<".", " ">>, <<"?", "!", "\n">>, <<",", " ">>, <<" ">>,
     <<",">>}

Items == {w \o sep : w \in Words, sep \in Separators}

SrtItems ==
    {<<"a", ".", " ">>,
     Word("m", MidWord) \o <<"?", " ">>,
     Word("w", LongWord) \o <<",", " ">>,
     Word("v", LongWord + 1) \o <<".", " ">>}

\* the script of the round-trip scenario, five Hangul syllables, ". ", five
\* Hangul syllables, ".": each syllable is one UTF-16 code unit, neither
\* whitespace nor punctuation, written here as one Latin letter
Greeting ==
    <<"A", "N", "H", "S", "Y", ".", " ", "B", "G", "P", "I", "D", ".">>

\* the concatenations of at most n items
RECURSIVE Scripts(_, _)
Scripts(items, n) ==
    IF n = 0 THEN {<<>>}
    ELSE LET S == Scripts(items, n - 1)
         IN  S \cup {t \o i : t \in S, i \in items}

Options(cps, min, max, gap) ==
    [charsPerSecond      |-> Lit(cps[1], cps[2]),
     minDuration         |-> Lit(min[1], min[2]),
     maxDuration         |-> Lit(max[1], max[2]),
     gapBetweenSubtitles |-> Lit(gap[1], gap[2])]

\* the defaults of generateSRT's destructuring
DefaultOptions == Options(<<5, 1>>, <<2, 1>>, <<8, 1>>, <<3, 10>>)

\* the defaults, the three presets of the settings panel, configurations at
\* the edges of the documented contract, and two outside it: charsPerSecond
\* zero and negative
SrtOptions ==
    {DefaultOptions,
     Options(<<7, 2>>, <<5, 2>>, <<10, 1>>, <<1, 2>>),
     Options(<<7, 1>>, <<3, 2>>, <<6, 1>>, <<2, 10>>),
     Options(<<5, 1>>, <<2, 1>>, <<8, 1>>, <<0, 1>>),
     Options(<<3, 1>>, <<1, 1>>, <<8, 1>>, <<1, 10>>),
     Options(<<5, 1>>, <<2, 1000>>, <<2, 1000>>, <<0, 1>>),
     Options(<<5, 1>>, <<4, 10000>>, <<4, 10000>>, <<0, 1>>),
     [DefaultOptions EXCEPT !.charsPerSecond = FromInt(0)],
     [DefaultOptions EXCEPT !.charsPerSecond = FNeg(FromInt(5))]}

FmtWhole == {0, 1, 2, 59, 60, 3599, 3600, 86399, 86400, 359999, 360000}

FmtMillis == {0, 1, 299, 300, 500, 999}

\* the seconds values handed to formatSRTTime on its own
FmtSeconds == {FAdd(FromInt(w), Lit(m, 1000)) : w \in FmtWhole, m \in FmtMillis}

(***************************************************************************)
(* The session (src/types.ts) and its JSON text                            *)
(***************************************************************************)
\* null; a one-element sequence that no text (a sequence of characters) and
\* no array of the model is equal to
Null == <<"null">>

\* truthiness of a value that is null or a string
Truthy(v) == v # Null /\ v # <<>>

INITIAL_SESSION ==
    [originalScript     |-> <<>>,
     suggestedTopics    |-> <<>>,
     selectedTopic      |-> Null,
     generatedNewScript |-> Null,
     isEditMode         |-> FALSE,
     generatedScripts   |-> <<>>,
     history            |-> <<>>,
     analysis           |-> Null,
     shortsScripts      |-> <<>>,
     imagePrompts       |-> <<>>]

\* the keys of an object in insertion order: those of INITIAL_SESSION,
\* then the ones the handlers and the load effect add
FieldOrder ==
    <<"originalScript", "suggestedTopics", "selectedTopic",
      "generatedNewScript", "isEditMode", "generatedScripts", "history",
      "analysis", "shortsScripts", "imagePrompts", "apiKey",
      "detailedAnalysis", "scriptRevision", "channelPlans", "videoTitle",
      "thumbnails", "videoDescription">>

\* { ...a, ...b }: the fields of b, and those of a that b does not have
Spread(a, b) == b @@ a

\* JSON.stringify of an object: its members, name and value, in key order
JsonStringify(obj) ==
    LET keys == SelectSeq(FieldOrder, LAMBDA k : k \in DOMAIN obj)
    IN  [i \in 1..Len(keys) |-> <<keys[i], obj[keys[i]]>>]

\* JSON.parse of a text written by JsonStringify
JsonParse(text) ==
    [k \in {text[i][1] : i \in 1..Len(text)} |->
        text[CHOOSE i \in 1..Len(text) : text[i][1] = k][2]]

SessionKey == "mvp_script_session"

ApiKeyKey == "mvp_api_key"

\* a local storage with no entry
EmptyStorage == [k \in {} |-> <<>>]

\* localStorage.getItem(key): null when there is no entry
GetItem(storage, key) == IF key \in DOMAIN storage THEN storage[key] ELSE Null

\* localStorage.setItem(key, text)
SetItem(storage, key, text) == (key :> text) @@ storage

(***************************************************************************)
(* State                                                                   *)
(***************************************************************************)
VARIABLES
    pc,            \* position in the function being run
    script,        \* the script argument
    options,       \* generateSRT's options, defaults applied
    sentences,     \* splitIntoSentences: the local `sentences`
    result,        \* splitIntoSentences: the returned array
    srtSentences,  \* generateSRT: the local `sentences`
    segments,      \* generateSRT: the local `segments`
    currentTime,   \* generateSRT: the local `currentTime`
    trace,         \* generateSRT: time and duration of each forEach call
    srt,           \* generateSRT: the returned string
    seconds,       \* formatSRTTime: the argument
    formatted,     \* formatSRTTime: the returned string
    session,       \* App: the `session` state, as last rendered
    sessionRef,    \* App: whether `session` is the INITIAL_SESSION object
    apiKey,        \* App: the `apiKey` state, as last rendered
    loading,       \* App: the `loading` state, as last rendered
    errorMsg,      \* App: the `errorMsg` state, as last rendered
    updates,       \* React: state updates queued and not yet rendered
    effectPending, \* React: the save effect is due ([session] has changed)
    localStorage,  \* browser: window.localStorage, key -> text
    mounted,       \* App: the mount effects have run
    lastEvent,     \* the last user event handled
    events,        \* number of user events handled so far
    calls,         \* two invocations of generateSRT, each with its locals
    closure,       \* handleSuggest: the `session` its closure captured
    iteration,     \* autoImproveUntilHookingScore8: `iteration`
    currentScript, \* autoImproveUntilHookingScore8: `currentScript`
    lastAnalysis,  \* autoImproveUntilHookingScore8: `lastAnalysis`
    analysis,      \* autoImproveUntilHookingScore8: `analysis` of the try block
    analyzeCalls,  \* calls of analyzeScriptAsPD made by the running loop
    improveCalls,  \* calls of improveScriptWithAnalysis made by the loop
    filename,      \* handleGenerateSRT: the file name handed to downloadSRT
    url,           \* downloadSRT: the local `url`, NoUrl before it is created
    objectUrls,    \* browser: object URLs created and not yet revoked
    bodyChildren,  \* browser: links appended to document.body
    downloads,     \* browser: the save actions triggered by link.click()
    alerts,        \* browser: the alert() calls of the handler
    clicks,        \* number of clicks on the "generate SRT" button so far
    improveScriptPc,      \* handleImproveScript: the request it waits for
    improveScriptClosure, \* handleImproveScript: the session of its render
    titlePc               \* handleGenerateTitle: the request it waits for

vars ==
    <<pc, script, options, sentences, result, srtSentences, segments,
      currentTime, trace, srt, seconds, formatted, session, sessionRef,
      apiKey, loading, errorMsg, updates, effectPending, localStorage,
      mounted, lastEvent, events, calls, closure, iteration, currentScript,
      lastAnalysis, analysis, analyzeCalls, improveCalls, filename, url,
      objectUrls, bodyChildren, downloads, alerts, clicks, improveScriptPc,
      improveScriptClosure, titlePc>>

splitVars == <<sentences, result>>

srtVars == <<options, srtSentences, segments, currentTime, trace, srt>>

fmtVars == <<seconds, formatted>>

dlVars ==
    <<filename, url, objectUrls, bodyChildren, downloads, alerts, clicks>>

storeVars ==
    <<session, sessionRef, apiKey, loading, errorMsg, updates, effectPending,
      localStorage, mounted, lastEvent, events>>

callVars == <<calls>>

improveVars ==
    <<closure, iteration, currentScript, lastAnalysis, analysis, analyzeCalls,
      improveCalls>>

\* what neither the download nor the session store touches
handlerVars == <<improveScriptPc, improveScriptClosure, titlePc>>

extraVars == <<callVars, improveVars, handlerVars>>

\* the variables of the host application, untouched by the caption functions
hostVars == <<dlVars, storeVars, extraVars>>

IdleSplit == sentences = <<>> /\ result = <<>>

IdleSrt ==
    /\ options = DefaultOptions
    /\ srtSentences = <<>>
    /\ segments = <<>>
    /\ currentTime = FromInt(0)
    /\ trace = <<>>
    /\ srt = <<>>

IdleFmt == seconds = FromInt(0) /\ formatted = <<>>

NoUrl == 0

IdleDownload ==
    /\ filename = <<>>
    /\ url = NoUrl
    /\ objectUrls = {}
    /\ bodyChildren = {}
    /\ downloads = <<>>
    /\ alerts = <<>>
    /\ clicks = 0

\* the application before its first render is committed
IdleStore ==
    /\ session = INITIAL_SESSION
    /\ sessionRef = "INITIAL_SESSION"
    /\ apiKey = <<>>
    /\ loading = "IDLE"
    /\ errorMsg = Null
    /\ updates = <<>>
    /\ effectPending = FALSE
    /\ localStorage = EmptyStorage
    /\ mounted = FALSE
    /\ lastEvent = "none"
    /\ events = 0

IdleCalls == calls = <<>>

IdleImprove ==
    /\ closure = INITIAL_SESSION
    /\ iteration = 0
    /\ currentScript = <<>>
    /\ lastAnalysis = Null
    /\ analysis = Null
    /\ analyzeCalls = 0
    /\ improveCalls = 0

IdleHandlers ==
    /\ improveScriptPc = "idle"
    /\ improveScriptClosure = INITIAL_SESSION
    /\ titlePc = "idle"

IdleExtra == IdleCalls /\ IdleImprove /\ IdleHandlers

IdleHost == IdleDownload /\ IdleStore /\ IdleExtra

(***************************************************************************)
(* generateSRT(script, options)                                            *)
(***************************************************************************)
Init ==
    /\ pc = "generateSRT"
    /\ script \in Scripts(SrtItems, MaxSrtItems) \cup {Greeting}
    /\ options \in SrtOptions
    /\ srtSentences = <<>>
    /\ segments = <<>>
    /\ currentTime = FromInt(0)
    /\ trace = <<>>
    /\ srt = <<>>
    /\ IdleSplit
    /\ IdleFmt
    /\ IdleHost

\* const sentences = splitIntoSentences(script); let currentTime = 0
SrtSplit ==
    /\ pc = "generateSRT"
    /\ srtSentences' = splitIntoSentences(script)
    /\ currentTime' = FromInt(0)
    /\ pc' = "forEach"
    /\ UNCHANGED <<script, options, segments, trace, srt, splitVars, fmtVars, hostVars>>

\* one call of the forEach callback
SrtForEach ==
    /\ pc = "forEach"
    /\ Len(segments) < Len(srtSentences)
    /\ LET index    == Len(segments)
           sentence == srtSentences[index + 1]
           duration == Duration(Len(sentence), options)
       IN  /\ segments' =
                 Append(segments, Segment(sentence, index, currentTime, duration))
           /\ trace' = Append(trace, [time |-> currentTime, duration |-> duration])
           /\ currentTime' =
                 Advance(currentTime, duration, options.gapBetweenSubtitles)
    /\ UNCHANGED <<pc, script, options, srtSentences, srt, splitVars, fmtVars, hostVars>>

\* return segments.map(...).join('\n')
SrtJoin ==
    /\ pc = "forEach"
    /\ Len(segments) = Len(srtSentences)
    /\ srt' = Serialize(segments)
    /\ pc' = "returned"
    /\ UNCHANGED <<script, options, srtSentences, segments, currentTime, trace,
                   splitVars, fmtVars, hostVars>>

Next == SrtSplit \/ SrtForEach \/ SrtJoin

Spec == Init /\ [][Next]_vars

(***************************************************************************)
(* splitIntoSentences(script)                                              *)
(***************************************************************************)
InitSplit ==
    /\ pc = "splitIntoSentences"
    /\ script \in Scripts(Items, MaxItems)
    /\ IdleSplit
    /\ IdleSrt
    /\ IdleFmt
    /\ IdleHost

\* const sentences = script.split(...).reduce(...)
SplitReduce ==
    /\ pc = "splitIntoSentences"
    /\ sentences' = SentencesOf(script)
    /\ pc' = "result"
    /\ UNCHANGED <<script, result, srtVars, fmtVars, hostVars>>

\* sentences.forEach(...); return result.filter(...)
SplitResult ==
    /\ pc = "result"
    /\ result' = ResultOf(sentences)
    /\ pc' = "returned"
    /\ UNCHANGED <<script, sentences, srtVars, fmtVars, hostVars>>

NextSplit == SplitReduce \/ SplitResult

SpecSplit == InitSplit /\ [][NextSplit]_vars

(***************************************************************************)
(* formatSRTTime(seconds)                                                  *)
(***************************************************************************)
InitFmt ==
    /\ pc = "formatSRTTime"
    /\ script = <<>>
    /\ seconds \in FmtSeconds
    /\ formatted = <<>>
    /\ IdleSplit
    /\ IdleSrt
    /\ IdleHost

Format ==
    /\ pc = "formatSRTTime"
    /\ formatted' = formatSRTTime(seconds)
    /\ pc' = "returned"
    /\ UNCHANGED <<script, seconds, splitVars, srtVars, hostVars>>

NextFmt == Format

SpecFmt == InitFmt /\ [][NextFmt]_vars

(***************************************************************************)
(* handleGenerateSRT (src/App.tsx) and downloadSRT                         *)
(***************************************************************************)
MaxClicks == 2

\* the values the settings panel starts with and its three presets
PanelOptions ==
    {DefaultOptions,
     Options(<<7, 2>>, <<5, 2>>, <<10, 1>>, <<1, 2>>),
     Options(<<7, 1>>, <<3, 2>>, <<6, 1>>, <<2, 10>>)}

\* contents of the SRT editor
DlScripts ==
    {<<>>, <<" ">>, <<"a", ".", " ">>, <<"a", ".", " ", "a", "!">>, Greeting}

Topics == {Null, <<"a", "b">>, <<"a", " ", "b", "!">>}

\* [a-zA-Z0-9]; the Hangul range of the pattern has no character in Topics
AlphaNumeric ==
    {"a", "b", "c", "d", "e", "f", "g", "h", "i", "j", "k", "l", "m", "n",
     "o", "p", "q", "r", "s", "t", "u", "v", "w", "x", "y", "z",
     "A", "B", "C", "D", "E", "F", "G", "H", "I", "J", "K", "L", "M", "N",
     "O", "P", "Q", "R", "S", "T", "U", "V", "W", "X", "Y", "Z",
     "0", "1", "2", "3", "4", "5", "6", "7", "8", "9"}

\* topic.replace(/[^a-zA-Z0-9가-힣]/g, '_')
Sanitize(topic) ==
    [i \in 1..Len(topic) |-> IF topic[i] \in AlphaNumeric THEN topic[i] ELSE "_"]

FilenameOf(topic) ==
    IF Truthy(topic) THEN Sanitize(topic) \o <<".", "s", "r", "t">>
    ELSE <<"s", "u", "b", "t", "i", "t", "l", "e", ".", "s", "r", "t">>

InitDownload ==
    /\ pc = "idle"
    /\ script \in DlScripts
    /\ options \in PanelOptions
    /\ session \in {[INITIAL_SESSION EXCEPT !.selectedTopic = t] : t \in Topics}
    /\ sessionRef = "fresh"
    /\ apiKey = <<>>
    /\ loading = "IDLE"
    /\ errorMsg = Null
    /\ updates = <<>>
    /\ effectPending = FALSE
    /\ localStorage = EmptyStorage
    /\ mounted = TRUE
    /\ lastEvent = "none"
    /\ events = 0
    /\ srtSentences = <<>>
    /\ segments = <<>>
    /\ currentTime = FromInt(0)
    /\ trace = <<>>
    /\ srt = <<>>
    /\ filename = <<>>
    /\ url = NoUrl
    /\ objectUrls = {}
    /\ bodyChildren = {}
    /\ downloads = <<>>
    /\ alerts = <<>>
    /\ clicks = 0
    /\ IdleExtra
    /\ IdleSplit
    /\ IdleFmt

\* a click on the button: handleGenerateSRT starts, with fresh locals
ClickGenerateSRT ==
    /\ pc = "idle"
    /\ clicks < MaxClicks
    /\ clicks' = clicks + 1
    /\ pc' = "handleGenerateSRT"
    /\ srtSentences' = <<>>
    /\ segments' = <<>>
    /\ currentTime' = FromInt(0)
    /\ trace' = <<>>
    /\ srt' = <<>>
    /\ filename' = <<>>
    /\ url' = NoUrl
    /\ UNCHANGED <<script, options, storeVars, objectUrls, bodyChildren,
                   downloads, alerts, splitVars, fmtVars, extraVars>>

\* if (!editedScriptForSRT.trim()) { alert(...); return; }, else the call
\* of generateSRT
HandleGuard ==
    /\ pc = "handleGenerateSRT"
    /\ IF Trim(script) = <<>>
       THEN alerts' = Append(alerts, "empty script") /\ pc' = "idle"
       ELSE alerts' = alerts /\ pc' = "generateSRT"
    /\ UNCHANGED <<script, options, storeVars, filename, url, objectUrls,
                   bodyChildren, downloads, clicks, srtSentences, segments,
                   currentTime, trace, srt, splitVars, fmtVars, extraVars>>

\* const filename = ...; downloadSRT(srtContent, filename): new Blob(...)
DlFilename ==
    /\ pc = "returned"
    /\ filename' = FilenameOf(session.selectedTopic)
    /\ pc' = "createObjectURL"
    /\ UNCHANGED <<script, options, storeVars, url, objectUrls,
                   bodyChildren, downloads, alerts, clicks, srtSentences,
                   segments, currentTime, trace, srt, splitVars, fmtVars, extraVars>>

\* const url = URL.createObjectURL(blob); the link is created and given
\* its href and download attributes
DlCreateObjectURL ==
    /\ pc = "createObjectURL"
    /\ url' = clicks
    /\ objectUrls' = objectUrls \cup {clicks}
    /\ pc' = "appendChild"
    /\ UNCHANGED <<script, options, storeVars, filename, bodyChildren,
                   downloads, alerts, clicks, srtSentences, segments,
                   currentTime, trace, srt, splitVars, fmtVars, extraVars>>

\* document.body.appendChild(link)
DlAppendChild ==
    /\ pc = "appendChild"
    /\ bodyChildren' = bodyChildren \cup {url}
    /\ pc' = "click"
    /\ UNCHANGED <<script, options, storeVars, filename, url, objectUrls,
                   downloads, alerts, clicks, srtSentences, segments,
                   currentTime, trace, srt, splitVars, fmtVars, extraVars>>

\* link.click()
DlClick ==
    /\ pc = "click"
    /\ downloads' =
           Append(downloads, [href |-> url, download |-> filename, content |-> srt])
    /\ pc' = "removeChild"
    /\ UNCHANGED <<script, options, storeVars, filename, url, objectUrls,
                   bodyChildren, alerts, clicks, srtSentences, segments,
                   currentTime, trace, srt, splitVars, fmtVars, extraVars>>

\* document.body.removeChild(link)
DlRemoveChild ==
    /\ pc = "removeChild"
    /\ bodyChildren' = bodyChildren \ {url}
    /\ pc' = "revokeObjectURL"
    /\ UNCHANGED <<script, options, storeVars, filename, url, objectUrls,
                   downloads, alerts, clicks, srtSentences, segments,
                   currentTime, trace, srt, splitVars, fmtVars, extraVars>>

\* URL.revokeObjectURL(url); downloadSRT returns
DlRevokeObjectURL ==
    /\ pc = "revokeObjectURL"
    /\ objectUrls' = objectUrls \ {url}
    /\ pc' = "alert"
    /\ UNCHANGED <<script, options, storeVars, filename, url,
                   bodyChildren, downloads, alerts, clicks, srtSentences,
                   segments, currentTime, trace, srt, splitVars, fmtVars, extraVars>>

\* a browser call of downloadSRT throws: nothing in downloadSRT catches it,
\* so control leaves the function for the catch of handleGenerateSRT
DlThrow ==
    /\ pc \in {"createObjectURL", "appendChild", "click", "removeChild"}
    /\ pc' = "catch"
    /\ UNCHANGED <<script, options, storeVars, filename, url, objectUrls,
                   bodyChildren, downloads, alerts, clicks, srtSentences,
                   segments, currentTime, trace, srt, splitVars, fmtVars, extraVars>>

\* alert of the success message; the handler returns
HandleAlert ==
    /\ pc = "alert"
    /\ alerts' = Append(alerts, "downloaded")
    /\ pc' = "idle"
    /\ UNCHANGED <<script, options, storeVars, filename, url, objectUrls,
                   bodyChildren, downloads, clicks, srtSentences, segments,
                   currentTime, trace, srt, splitVars, fmtVars, extraVars>>

\* catch (error) { console.error(...); alert(...) }; the handler returns
HandleCatch ==
    /\ pc = "catch"
    /\ alerts' = Append(alerts, "error")
    /\ pc' = "idle"
    /\ UNCHANGED <<script, options, storeVars, filename, url, objectUrls,
                   bodyChildren, downloads, clicks, srtSentences, segments,
                   currentTime, trace, srt, splitVars, fmtVars, extraVars>>

NextDownload ==
    \/ ClickGenerateSRT \/ HandleGuard
    \/ SrtSplit \/ SrtForEach \/ SrtJoin
    \/ DlFilename \/ DlCreateObjectURL \/ DlAppendChild \/ DlClick
    \/ DlRemoveChild \/ DlRevokeObjectURL \/ DlThrow
    \/ HandleAlert \/ HandleCatch

SpecDownload == InitDownload /\ [][NextDownload]_vars

(***************************************************************************)
(* The session store of App (src/App.tsx): state, effects, handlers        *)
(***************************************************************************)
MaxEvents == 4

\* texts typed into the script box
ScriptInputs == {<<>>, <<"a">>}

\* texts typed into the API key box
KeyInputs == {<<"k">>, <<"q">>}

\* const { apiKey, ...sessionWithoutApiKey } = session
SessionWithoutApiKey(s) == [k \in DOMAIN s \ {"apiKey"} |-> s[k]]

\* parsed.key ?? fallback, for a member that is never written as null
\* unless the fallback is null too
OrDefault(parsed, key, fallback) ==
    IF key \in DOMAIN parsed THEN parsed[key] ELSE fallback

\* the object the load effect hands to setSession
LoadedSession(parsed) ==
    Spread(Spread(INITIAL_SESSION, parsed),
           [apiKey           |-> <<>>,
            isEditMode       |-> OrDefault(parsed, "isEditMode", FALSE),
            generatedScripts |-> OrDefault(parsed, "generatedScripts", <<>>),
            history          |-> OrDefault(parsed, "history", <<>>),
            analysis         |-> OrDefault(parsed, "analysis", Null),
            detailedAnalysis |-> OrDefault(parsed, "detailedAnalysis", Null),
            scriptRevision   |-> OrDefault(parsed, "scriptRevision", Null),
            shortsScripts    |-> OrDefault(parsed, "shortsScripts", <<>>),
            channelPlans     |-> OrDefault(parsed, "channelPlans", <<>>),
            imagePrompts     |-> OrDefault(parsed, "imagePrompts", <<>>),
            videoTitle       |-> OrDefault(parsed, "videoTitle", Null),
            thumbnails       |-> OrDefault(parsed, "thumbnails", <<>>)])

\* one queued update applied to the state being rendered; `touched` says
\* that a setSession has been applied
ApplyUpdate(st, u) ==
    IF u.op = "setApiKey" THEN [st EXCEPT !.apiKey = u.value]
    ELSE IF u.op = "setLoading" THEN [st EXCEPT !.loading = u.value]
    ELSE IF u.op = "setErrorMsg" THEN [st EXCEPT !.errorMsg = u.value]
    ELSE IF u.op = "patch"
    THEN [st EXCEPT !.session = Spread(st.session, u.fields),
                    !.ref = "fresh", !.touched = TRUE]
    ELSE IF u.op = "history"
    THEN [st EXCEPT !.session.history = Append(@, u.item),
                    !.ref = "fresh", !.touched = TRUE]
    ELSE [st EXCEPT !.session = u.value, !.ref = u.ref, !.touched = TRUE]

RECURSIVE ApplyUpdates(_, _, _)
ApplyUpdates(st, queue, k) ==
    IF k > Len(queue) THEN st
    ELSE ApplyUpdates(ApplyUpdate(st, queue[k]), queue, k + 1)

\* mutant: the save effect with an empty dependency list
EffectDueNever(prevRef, nextRef, touched) == FALSE

\* the dependency list [session] of the save effect: the effect is due when
\* the rendered session is another object than the one rendered before
EffectDue(prevRef, nextRef, touched) ==
    touched /\ (nextRef = "fresh" \/ prevRef # nextRef)

\* mutant: the whole session is written
SnapshotWithApiKey(s) == JsonStringify(s)

\* the text the save effect writes
SnapshotOf(s) == JsonStringify(SessionWithoutApiKey(s))

InitSession ==
    /\ pc = "App"
    /\ script = <<>>
    /\ IdleSplit
    /\ IdleSrt
    /\ IdleFmt
    /\ IdleHost

\* the first commit: the three mount effects in the order of their
\* declaration (API key, load, save)
Mount ==
    /\ ~mounted
    /\ LET savedKey == GetItem(localStorage, ApiKeyKey)
           saved    == GetItem(localStorage, SessionKey)
       IN  /\ updates' =
                 <<[op |-> "setApiKey",
                    value |-> IF Truthy(savedKey) THEN savedKey ELSE <<>>]>>
                 \o (IF Truthy(saved)
                     THEN <<[op |-> "set", ref |-> "fresh",
                             value |-> LoadedSession(JsonParse(saved))]>>
                     ELSE <<>>)
           /\ localStorage' = SetItem(localStorage, SessionKey, SnapshotOf(session))
    /\ mounted' = TRUE
    /\ UNCHANGED <<pc, script, session, sessionRef, apiKey, loading, errorMsg, effectPending,
                   lastEvent, events, dlVars, splitVars, srtVars, fmtVars, extraVars>>

\* React renders with the queued updates applied
Render ==
    /\ mounted
    /\ updates # <<>>
    /\ LET st == ApplyUpdates([session |-> session, ref |-> sessionRef,
                               apiKey |-> apiKey, loading |-> loading,
                               errorMsg |-> errorMsg, touched |-> FALSE],
                              updates, 1)
       IN  /\ session' = st.session
           /\ sessionRef' = st.ref
           /\ apiKey' = st.apiKey
           /\ loading' = st.loading
           /\ errorMsg' = st.errorMsg
           /\ effectPending' =
                  (effectPending \/ EffectDue(sessionRef, st.ref, st.touched))
    /\ updates' = <<>>
    /\ UNCHANGED <<pc, script, localStorage, mounted, lastEvent, events,
                   dlVars, splitVars, srtVars, fmtVars, extraVars>>

\* Persistence: Save
SaveEffect ==
    /\ mounted
    /\ effectPending
    /\ localStorage' = SetItem(localStorage, SessionKey, SnapshotOf(session))
    /\ effectPending' = FALSE
    /\ UNCHANGED <<pc, script, session, sessionRef, apiKey, loading, errorMsg, updates, mounted,
                   lastEvent, events, dlVars, splitVars, srtVars, fmtVars, extraVars>>

\* a user event is handled by the mounted application
UserEvent(name) ==
    /\ mounted
    /\ events < MaxEvents
    /\ events' = events + 1
    /\ lastEvent' = name

HandleInputChange ==
    /\ UserEvent("input")
    /\ \E v \in ScriptInputs :
           updates' =
               Append(updates, [op |-> "patch", fields |-> [originalScript |-> v]])
    /\ UNCHANGED <<pc, script, session, sessionRef, apiKey, loading, errorMsg, effectPending,
                   localStorage, mounted, dlVars, splitVars, srtVars, fmtVars, extraVars>>

HandleApiKeyChange ==
    /\ UserEvent("key input")
    /\ \E v \in KeyInputs :
           updates' = Append(updates, [op |-> "setApiKey", value |-> v])
    /\ UNCHANGED <<pc, script, session, sessionRef, apiKey, loading, errorMsg, effectPending,
                   localStorage, mounted, dlVars, splitVars, srtVars, fmtVars, extraVars>>

HandleApiKeySave ==
    /\ UserEvent("key save")
    /\ localStorage' = SetItem(localStorage, ApiKeyKey, apiKey)
    /\ updates' = Append(updates, [op |-> "patch", fields |-> [apiKey |-> apiKey]])
    /\ alerts' = Append(alerts, "API key saved")
    /\ UNCHANGED <<pc, script, session, sessionRef, apiKey, loading, errorMsg, effectPending,
                   mounted, filename, url, objectUrls, bodyChildren, downloads,
                   clicks, splitVars, srtVars, fmtVars, extraVars>>

\* Clear All. After setSession(INITIAL_SESSION) the handler calls useEffect:
\* a hook called outside a render throws, so the handler ends there and its
\* last statement, localStorage.removeItem, is never reached
HandleClear ==
    /\ \E confirmed \in BOOLEAN :
           IF confirmed
           THEN /\ UserEvent("clear")
                /\ updates' =
                       Append(updates, [op |-> "set", ref |-> "INITIAL_SESSION",
                                        value |-> INITIAL_SESSION])
           ELSE /\ UserEvent("clear cancelled")
                /\ updates' = updates
    /\ UNCHANGED <<pc, script, session, sessionRef, apiKey, loading, errorMsg, effectPending,
                   localStorage, mounted, dlVars, splitVars, srtVars, fmtVars, extraVars>>

\* the page is reloaded: the state of the component is gone, the local
\* storage stays
Reload ==
    /\ UserEvent("reload")
    /\ session' = INITIAL_SESSION
    /\ sessionRef' = "INITIAL_SESSION"
    /\ apiKey' = <<>>
    /\ loading' = "IDLE"
    /\ errorMsg' = Null
    /\ updates' = <<>>
    /\ effectPending' = FALSE
    /\ mounted' = FALSE
    /\ UNCHANGED <<pc, script, localStorage, dlVars, splitVars, srtVars,
                   fmtVars, extraVars>>

NextSession ==
    \/ Mount \/ Render \/ SaveEffect
    \/ HandleInputChange \/ HandleApiKeyChange \/ HandleApiKeySave
    \/ HandleClear \/ Reload

SpecSession == InitSession /\ [][NextSession]_vars

(***************************************************************************)
(* Two invocations of generateSRT, interleaved                             *)
(***************************************************************************)
\* the arguments of the two invocations
CallScripts ==
    {<<>>, <<"a", ".", " ">>, <<"a", ".", " ", "b", "b", "!">>, Greeting}

CallOptions == {DefaultOptions, Options(<<7, 1>>, <<3, 2>>, <<6, 1>>, <<2, 10>>)}

\* mutant: currentTime kept in one place for all invocations
ClockOfFirst(cs, c) == cs[1].currentTime

\* the `currentTime` an invocation reads: its own local
ClockOf(cs, c) == cs[c].currentTime

NewCall(script_, options_) ==
    [pc          |-> "generateSRT",
     script      |-> script_,
     options     |-> options_,
     sentences   |-> <<>>,
     segments    |-> <<>>,
     currentTime |-> FromInt(0),
     srt         |-> <<>>]

InitCalls ==
    /\ pc = "calls"
    /\ script = <<>>
    /\ calls \in {<<NewCall(s1, o1), NewCall(s2, o2)>> :
                     s1 \in CallScripts, s2 \in CallScripts,
                     o1 \in CallOptions, o2 \in CallOptions}
    /\ IdleSplit
    /\ IdleSrt
    /\ IdleFmt
    /\ IdleDownload
    /\ IdleStore
    /\ IdleImprove
    /\ IdleHandlers

\* invocation c: const sentences = splitIntoSentences(script); currentTime = 0
CallSplit(c) ==
    /\ calls[c].pc = "generateSRT"
    /\ calls' = [calls EXCEPT ![c].sentences = splitIntoSentences(calls[c].script),
                              ![c].currentTime = FromInt(0),
                              ![c].pc = "forEach"]

\* invocation c: one call of the forEach callback
CallForEach(c) ==
    /\ calls[c].pc = "forEach"
    /\ Len(calls[c].segments) < Len(calls[c].sentences)
    /\ LET index    == Len(calls[c].segments)
           sentence == calls[c].sentences[index + 1]
           duration == Duration(Len(sentence), calls[c].options)
           time     == ClockOf(calls, c)
       IN  calls' =
               [calls EXCEPT
                   ![c].segments = Append(@, Segment(sentence, index, time, duration)),
                   ![c].currentTime =
                       Advance(time, duration, calls[c].options.gapBetweenSubtitles)]

\* invocation c: return segments.map(...).join('\n')
CallJoin(c) ==
    /\ calls[c].pc = "forEach"
    /\ Len(calls[c].segments) = Len(calls[c].sentences)
    /\ calls' = [calls EXCEPT ![c].srt = Serialize(calls[c].segments),
                              ![c].pc = "returned"]

NextCalls ==
    /\ \E c \in 1..2 : CallSplit(c) \/ CallForEach(c) \/ CallJoin(c)
    /\ UNCHANGED <<pc, script, splitVars, srtVars, fmtVars, dlVars, storeVars,
                   improveVars, handlerVars>>

SpecCalls == InitCalls /\ [][NextCalls]_vars

(***************************************************************************)
(* handleSuggest and autoImproveUntilHookingScore8 (src/App.tsx)           *)
(***************************************************************************)
MaxSuggests == 1

maxIterations == 5

MaxFinalLength == 10000

\* hooking scores the analysis call returns
Scores == {6, 7, 8}

\* an analysis result, reduced to its hookingScore
Analysis(score) == <<"hookingScore", score>>

HookingScore(a) == a[2]

\* the text the improvement call returns for a script
ImprovedScripts(text) == {Append(text, "+")}

\* the topic lists the suggestion call returns
TopicLists == {<<<<"t">>>>}

\* mutant: the guard without trim()
HasApiKeyUntrimmed(s) == "apiKey" \in DOMAIN s /\ Truthy(s.apiKey)

\* getAI(apiKey) of the service: throws for an empty or blank key, before
\* the client is created
GetAIThrows(k) == ~Truthy(k) \/ Trim(k) = <<>>

\* !s.apiKey || !s.apiKey.trim(), negated
HasApiKey(s) == "apiKey" \in DOMAIN s /\ Trim(s.apiKey) # <<>>

\* the sessions the Suggest button can be clicked in
ImproveSessions ==
    {Spread(INITIAL_SESSION, [originalScript |-> s, apiKey |-> k]) :
        s \in {<<"a">>, <<"a", " ", "b">>}, k \in {<<>>, <<" ">>, <<"k">>}}

\* mutant: one more pass of the loop
LoopGuardInclusive(n) == n <= maxIterations

\* while (iteration < maxIterations)
LoopGuard(n) == n < maxIterations

\* the threshold of the early return
GoalReached(a) == HookingScore(a) >= 7

\* saveToHistory(topic, script, true): the queued update; the id and
\* createdAt of the item come from Date.now() and are left out
SaveToHistory(kind, n, score, text) ==
    [op |-> "history",
     item |-> [topic |-> <<kind, n, score>>, script |-> text, isEdited |-> TRUE]]

SetLoading(v) == [op |-> "setLoading", value |-> v]

SetErrorMsg(v) == [op |-> "setErrorMsg", value |-> v]

InitImprove ==
    /\ pc = "idle"
    /\ script = <<>>
    /\ session \in ImproveSessions
    /\ sessionRef = "fresh"
    /\ apiKey = session.apiKey
    /\ loading = "IDLE"
    /\ errorMsg = Null
    /\ updates = <<>>
    /\ effectPending = FALSE
    /\ localStorage =
           SetItem(SetItem(EmptyStorage, ApiKeyKey, session.apiKey),
                   SessionKey, SnapshotOf(session))
    /\ mounted = TRUE
    /\ lastEvent = "none"
    /\ events = 0
    /\ IdleSplit
    /\ IdleSrt
    /\ IdleFmt
    /\ IdleDownload
    /\ IdleExtra

\* React has flushed the queued updates and run the effects: every step of
\* the chain follows an await on the network or on a timer
Flushed == updates = <<>> /\ ~effectPending

\* what the steps of the chain never touch
ChainUnchanged ==
    UNCHANGED <<script, session, sessionRef, apiKey, loading, errorMsg,
                effectPending, localStorage, mounted, calls, filename, url,
                objectUrls, bodyChildren, downloads, clicks, splitVars,
                srtVars, fmtVars, handlerVars>>

\* the catch block of the inner try of handleSuggest, with its finally
SuggestCatch ==
    /\ updates' = updates \o <<SetErrorMsg("improve failed"), SetLoading("IDLE")>>
    /\ alerts' = Append(alerts, [kind |-> "error"])
    /\ pc' = "idle"

\* a click on the Suggest button: handleSuggest up to its first await
ClickSuggest ==
    /\ pc = "idle"
    /\ mounted
    /\ loading = "IDLE"
    /\ Trim(session.originalScript) # <<>>
    /\ events < MaxSuggests
    /\ events' = events + 1
    /\ lastEvent' = "suggest"
    /\ closure' = session
    /\ IF Trim(session.originalScript) = <<>>
       THEN /\ updates' = Append(updates, SetErrorMsg("script first"))
            /\ pc' = "idle"
       ELSE IF ~HasApiKey(session)
       THEN /\ updates' = Append(updates, SetErrorMsg("API key first"))
            /\ pc' = "idle"
       ELSE /\ updates' = updates \o <<SetLoading("ANALYZING"), SetErrorMsg(Null)>>
            /\ pc' = "handleSuggest: analyzeScriptAsPD"
    /\ UNCHANGED <<script, session, sessionRef, apiKey, loading, errorMsg,
                   effectPending, localStorage, mounted, calls, dlVars,
                   iteration, currentScript, lastAnalysis, analysis,
                   analyzeCalls, improveCalls, splitVars, srtVars, fmtVars,
                   handlerVars>>

\* the first analysis returns: setSession, then setTimeout(..., 500)
SuggestAnalyzed ==
    /\ Flushed
    /\ pc = "handleSuggest: analyzeScriptAsPD"
    /\ \E score \in Scores :
           updates' =
               Append(updates, [op |-> "patch",
                                fields |-> [analysis |-> Analysis(score)]])
    /\ pc' = "setTimeout"
    /\ UNCHANGED <<alerts, events, lastEvent, improveVars>>
    /\ ChainUnchanged

\* the first analysis throws: the outer catch
SuggestAnalyzeFailed ==
    /\ Flushed
    /\ pc = "handleSuggest: analyzeScriptAsPD"
    /\ updates' = updates \o <<SetErrorMsg("analysis failed"), SetLoading("IDLE")>>
    /\ alerts' = Append(alerts, [kind |-> "analysis error"])
    /\ pc' = "idle"
    /\ UNCHANGED <<events, lastEvent, improveVars>>
    /\ ChainUnchanged

\* the timer fires: autoImproveUntilHookingScore8(session.originalScript, ..)
\* is entered
SuggestTimer ==
    /\ Flushed
    /\ pc = "setTimeout"
    /\ currentScript' = closure.originalScript
    /\ iteration' = 0
    /\ lastAnalysis' = Null
    /\ analysis' = Null
    /\ analyzeCalls' = 0
    /\ improveCalls' = 0
    /\ pc' = "while"
    /\ UNCHANGED <<updates, alerts, events, lastEvent, closure>>
    /\ ChainUnchanged

\* the loop is entered once more: iteration++, setLoading, the analysis call
LoopEnter ==
    /\ Flushed
    /\ pc = "while"
    /\ LoopGuard(iteration)
    /\ iteration' = iteration + 1
    /\ updates' = Append(updates, SetLoading("ANALYZING"))
    /\ analyzeCalls' = analyzeCalls + 1
    /\ pc' = "analyzeScriptAsPD"
    /\ UNCHANGED <<alerts, events, lastEvent, closure, currentScript,
                   lastAnalysis, analysis, improveCalls>>
    /\ ChainUnchanged

\* the loop is left after maxIterations passes: the closing alert, return
\* currentScript; handleSuggest goes on to the topic suggestion
LoopExit ==
    /\ Flushed
    /\ pc = "while"
    /\ ~LoopGuard(iteration)
    /\ alerts' =
           IF lastAnalysis # Null
           THEN Append(alerts, [kind |-> "goal missed", iteration |-> iteration,
                                score |-> HookingScore(lastAnalysis)])
           ELSE alerts
    /\ updates' = Append(updates, SetLoading("SUGGESTING"))
    /\ pc' = "suggestTopicsFromScript"
    /\ UNCHANGED <<events, lastEvent, improveVars>>
    /\ ChainUnchanged

\* the analysis of the loop returns
AnalyzeReturns ==
    /\ Flushed
    /\ pc = "analyzeScriptAsPD"
    /\ \E score \in Scores :
         LET a == Analysis(score)
             finalScript ==
                 IF Len(currentScript) > MaxFinalLength
                 THEN SubSeq(currentScript, 1, MaxFinalLength)
                 ELSE currentScript
         IN  /\ analysis' = a
             /\ lastAnalysis' = a
             /\ IF GoalReached(a)
                THEN /\ alerts' =
                            Append(alerts, [kind |-> "goal reached",
                                            iteration |-> iteration,
                                            score |-> score])
                     /\ updates' =
                            updates
                            \o <<[op |-> "patch", fields |-> [analysis |-> a]],
                                 SaveToHistory("final", iteration, score, finalScript),
                                 SetLoading("SUGGESTING")>>
                     /\ currentScript' = finalScript
                     /\ pc' = "suggestTopicsFromScript"
                ELSE /\ alerts' =
                            Append(alerts, [kind |-> "improving",
                                            iteration |-> iteration,
                                            score |-> score])
                     /\ updates' =
                            Append(updates,
                                   [op |-> "patch", fields |-> [analysis |-> a]])
                     /\ currentScript' = currentScript
                     /\ pc' = "pause before improve"
    /\ UNCHANGED <<events, lastEvent, closure, iteration, analyzeCalls,
                   improveCalls>>
    /\ ChainUnchanged

\* mutant: every failure is thrown to the caller
LoopCatchRethrow == SuggestCatch

\* the catch block of the loop: rethrow in the last pass, else wait
LoopCatch ==
    IF iteration >= maxIterations
    THEN SuggestCatch
    ELSE /\ pc' = "pause before retry"
         /\ UNCHANGED <<updates, alerts>>

\* the analysis of the loop throws
AnalyzeThrows ==
    /\ Flushed
    /\ pc = "analyzeScriptAsPD"
    /\ LoopCatch
    /\ UNCHANGED <<events, lastEvent, improveVars>>
    /\ ChainUnchanged

\* the 3 s wait is over: setLoading, the improvement call
ImproveStart ==
    /\ Flushed
    /\ pc = "pause before improve"
    /\ updates' = Append(updates, SetLoading("IMPROVING"))
    /\ improveCalls' = improveCalls + 1
    /\ pc' = "improveScriptWithAnalysis"
    /\ UNCHANGED <<alerts, events, lastEvent, closure, iteration,
                   currentScript, lastAnalysis, analysis, analyzeCalls>>
    /\ ChainUnchanged

\* the improvement returns: saveToHistory, currentScript = improvedScript
ImproveReturns ==
    /\ Flushed
    /\ pc = "improveScriptWithAnalysis"
    /\ \E improvedScript \in ImprovedScripts(currentScript) :
           /\ updates' =
                  Append(updates,
                         SaveToHistory("improved", iteration,
                                       HookingScore(analysis), improvedScript))
           /\ currentScript' = improvedScript
    /\ pc' = "pause after improve"
    /\ UNCHANGED <<alerts, events, lastEvent, closure, iteration,
                   lastAnalysis, analysis, analyzeCalls, improveCalls>>
    /\ ChainUnchanged

\* the improvement throws
ImproveThrows ==
    /\ Flushed
    /\ pc = "improveScriptWithAnalysis"
    /\ LoopCatch
    /\ UNCHANGED <<events, lastEvent, improveVars>>
    /\ ChainUnchanged

\* the wait at the end of a pass, or after a failed pass, is over
PauseDone ==
    /\ Flushed
    /\ pc \in {"pause after improve", "pause before retry"}
    /\ pc' = "while"
    /\ UNCHANGED <<updates, alerts, events, lastEvent, improveVars>>
    /\ ChainUnchanged

\* the topic suggestion returns: setSession, the closing alert, finally
TopicsReturn ==
    /\ Flushed
    /\ pc = "suggestTopicsFromScript"
    /\ \E topics \in TopicLists :
           updates' =
               updates
               \o <<[op |-> "patch",
                     fields |-> [originalScript     |-> currentScript,
                                 suggestedTopics    |-> topics,
                                 selectedTopic      |-> Null,
                                 generatedNewScript |-> Null]],
                    SetLoading("IDLE")>>
    /\ alerts' =
           Append(alerts, [kind |-> "improved to 8 or more",
                           analysis |-> lastAnalysis])
    /\ pc' = "idle"
    /\ UNCHANGED <<events, lastEvent, improveVars>>
    /\ ChainUnchanged

\* the topic suggestion throws: catch, finally
TopicsThrow ==
    /\ Flushed
    /\ pc = "suggestTopicsFromScript"
    /\ SuggestCatch
    /\ UNCHANGED <<events, lastEvent, improveVars>>
    /\ ChainUnchanged

\* the steps the external API and the timers take
ChainStep ==
    \/ SuggestAnalyzed \/ SuggestAnalyzeFailed \/ SuggestTimer
    \/ LoopEnter \/ LoopExit \/ AnalyzeReturns \/ AnalyzeThrows
    \/ ImproveStart \/ ImproveReturns \/ ImproveThrows \/ PauseDone
    \/ TopicsReturn \/ TopicsThrow

NextImprove == ClickSuggest \/ ChainStep \/ Render \/ SaveEffect

SpecImprove == InitImprove /\ [][NextImprove]_vars

\* every call of the external API returns or fails, every timer fires, and
\* React renders and runs its effects
SpecImproveFair ==
    /\ SpecImprove
    /\ WF_vars(ChainStep)
    /\ WF_vars(Render)
    /\ WF_vars(SaveEffect)

(***************************************************************************)
(* handleImproveScript, handleGenerateTitle and Clear beside each other    *)
(* (src/App.tsx)                                                           *)
(***************************************************************************)
MaxHandlerEvents == 3

MinImprovedLength == 1000

\* the texts the improvement call returns to handleImproveScript: one too
\* short to be accepted, one long enough
ImprovedResults == {<<"s">>, [i \in 1..MinImprovedLength |-> "x"]}

\* the titles generateVideoTitle returns
Titles == {<<"T">>}

\* the sessions the handlers run beside each other in: a script has been
\* generated and analysed
HandlerSessions ==
    {Spread(INITIAL_SESSION,
            [originalScript |-> <<"a">>, apiKey |-> k,
             selectedTopic |-> <<"t">>, generatedNewScript |-> <<"g">>,
             analysis |-> Analysis(6)]) : k \in {<<>>, <<"k">>}}

InitHandlers ==
    /\ pc = "idle"
    /\ script = <<>>
    /\ session \in HandlerSessions
    /\ sessionRef = "fresh"
    /\ apiKey = session.apiKey
    /\ loading = "IDLE"
    /\ errorMsg = Null
    /\ updates = <<>>
    /\ effectPending = FALSE
    /\ localStorage =
           SetItem(SetItem(EmptyStorage, ApiKeyKey, session.apiKey),
                   SessionKey, SnapshotOf(session))
    /\ mounted = TRUE
    /\ lastEvent = "none"
    /\ events = 0
    /\ IdleSplit
    /\ IdleSrt
    /\ IdleFmt
    /\ IdleDownload
    /\ IdleExtra

\* what the steps of handleImproveScript never touch
HandlerUnchanged ==
    UNCHANGED <<pc, script, session, sessionRef, apiKey, loading, errorMsg,
                effectPending, localStorage, mounted, calls, filename, url,
                objectUrls, bodyChildren, downloads, clicks, splitVars,
                srtVars, fmtVars, improveVars>>

\* mutant: the catch block without the finally
ImproveScriptCatchNoFinally ==
    /\ updates' = Append(updates, SetErrorMsg("improve failed"))
    /\ alerts' = Append(alerts, [kind |-> "improve error"])
    /\ improveScriptPc' = "idle"

\* the catch block of handleImproveScript, with its finally
ImproveScriptCatch ==
    /\ updates' = updates \o <<SetErrorMsg("improve failed"), SetLoading("IDLE")>>
    /\ alerts' = Append(alerts, [kind |-> "improve error"])
    /\ improveScriptPc' = "idle"

\* a click on the PD improvement button: handleImproveScript up to its await
ClickImproveScript ==
    /\ mounted
    /\ improveScriptPc = "idle"
    /\ loading # "IMPROVING"
    /\ Truthy(session.generatedNewScript)
    /\ Null # session.analysis
    /\ events < MaxHandlerEvents
    /\ events' = events + 1
    /\ lastEvent' = "improve"
    /\ improveScriptClosure' = session
    /\ IF ~HasApiKey(session)
       THEN /\ updates' = Append(updates, SetErrorMsg("API key first"))
            /\ improveScriptPc' = "idle"
       ELSE \E confirmImprove \in BOOLEAN :
                IF confirmImprove
                THEN /\ updates' =
                            updates \o <<SetLoading("IMPROVING"), SetErrorMsg(Null)>>
                     /\ improveScriptPc' = "improveScriptWithAnalysis"
                ELSE /\ updates' = updates
                     /\ improveScriptPc' = "idle"
    /\ UNCHANGED <<alerts, titlePc>>
    /\ HandlerUnchanged

\* the improvement returns: validation, setSession, saveToHistory,
\* setLoading('IDLE'), and on request the metadata regeneration
ImproveScriptReturns ==
    /\ Flushed
    /\ improveScriptPc = "improveScriptWithAnalysis"
    /\ \E improvedScript \in ImprovedResults :
         IF Len(improvedScript) < MinImprovedLength
         THEN ImproveScriptCatch
         ELSE \E autoGenerate \in BOOLEAN :
                /\ updates' =
                       updates
                       \o <<[op |-> "patch",
                             fields |-> [generatedNewScript |-> improvedScript,
                                         analysis |-> Null,
                                         videoTitle |-> Null,
                                         thumbnails |-> <<>>,
                                         imagePrompts |-> <<>>,
                                         videoDescription |-> Null]]>>
                       \o (IF Truthy(improveScriptClosure.selectedTopic)
                           THEN <<SaveToHistory("PD improved", 0, 0, improvedScript)>>
                           ELSE <<>>)
                       \o <<SetLoading("IDLE")>>
                       \o (IF autoGenerate
                           THEN <<SetLoading("GENERATING_METADATA"),
                                  SetLoading("TITLE")>>
                           ELSE <<SetLoading("IDLE")>>)
                /\ alerts' = Append(alerts, [kind |-> "improved"])
                /\ improveScriptPc' =
                       IF autoGenerate THEN "generateVideoTitle" ELSE "idle"
    /\ UNCHANGED <<events, lastEvent, improveScriptClosure, titlePc>>
    /\ HandlerUnchanged

\* the improvement throws
ImproveScriptThrows ==
    /\ Flushed
    /\ improveScriptPc = "improveScriptWithAnalysis"
    /\ ImproveScriptCatch
    /\ UNCHANGED <<events, lastEvent, improveScriptClosure, titlePc>>
    /\ HandlerUnchanged

\* generateAllMetadata: the title returns; back in handleImproveScript the
\* alert and the finally
MetadataReturns ==
    /\ Flushed
    /\ improveScriptPc = "generateVideoTitle"
    /\ \E title \in Titles :
           updates' =
               updates \o <<[op |-> "patch", fields |-> [videoTitle |-> title]],
                            SetLoading("IDLE")>>
    /\ alerts' = Append(alerts, [kind |-> "metadata done"])
    /\ improveScriptPc' = "idle"
    /\ UNCHANGED <<events, lastEvent, improveScriptClosure, titlePc>>
    /\ HandlerUnchanged

\* generateAllMetadata: the title call throws and is caught there; back in
\* handleImproveScript the alert and the finally
MetadataThrows ==
    /\ Flushed
    /\ improveScriptPc = "generateVideoTitle"
    /\ updates' = Append(updates, SetLoading("IDLE"))
    /\ alerts' = alerts \o <<[kind |-> "title failed"], [kind |-> "metadata done"]>>
    /\ improveScriptPc' = "idle"
    /\ UNCHANGED <<events, lastEvent, improveScriptClosure, titlePc>>
    /\ HandlerUnchanged

\* a click on the title button: handleGenerateTitle up to its await
ClickTitle ==
    /\ mounted
    /\ titlePc = "idle"
    /\ loading # "TITLE"
    /\ Truthy(session.generatedNewScript)
    /\ events < MaxHandlerEvents
    /\ events' = events + 1
    /\ lastEvent' = "title"
    /\ IF ~HasApiKey(session)
       THEN /\ updates' = Append(updates, SetErrorMsg("API key first"))
            /\ titlePc' = "idle"
       ELSE /\ updates' = updates \o <<SetLoading("TITLE"), SetErrorMsg(Null)>>
            /\ titlePc' = "generateVideoTitle"
    /\ UNCHANGED <<alerts, improveScriptPc, improveScriptClosure>>
    /\ HandlerUnchanged

\* the title returns: setSession, finally
TitleReturns ==
    /\ Flushed
    /\ titlePc = "generateVideoTitle"
    /\ \E title \in Titles :
           updates' =
               updates \o <<[op |-> "patch", fields |-> [videoTitle |-> title]],
                            SetLoading("IDLE")>>
    /\ titlePc' = "idle"
    /\ UNCHANGED <<alerts, events, lastEvent, improveScriptPc,
                   improveScriptClosure>>
    /\ HandlerUnchanged

\* the title call throws: catch, finally
TitleThrows ==
    /\ Flushed
    /\ titlePc = "generateVideoTitle"
    /\ updates' = updates \o <<SetErrorMsg("title failed"), SetLoading("IDLE")>>
    /\ titlePc' = "idle"
    /\ UNCHANGED <<alerts, events, lastEvent, improveScriptPc,
                   improveScriptClosure>>
    /\ HandlerUnchanged

\* Clear All, at any moment: the button has no disabled condition
ClearDuringRequest ==
    /\ events < MaxHandlerEvents
    /\ HandleClear

\* the steps the external API takes
HandlerStep ==
    \/ ImproveScriptReturns \/ ImproveScriptThrows
    \/ MetadataReturns \/ MetadataThrows
    \/ TitleReturns \/ TitleThrows

NextHandlers ==
    \/ ClickImproveScript \/ ClickTitle \/ ClearDuringRequest
    \/ HandlerStep \/ Render \/ SaveEffect

SpecHandlers == InitHandlers /\ [][NextHandlers]_vars

\* every call of the external API returns or fails, and React renders and
\* runs its effects
SpecHandlersFair ==
    /\ SpecHandlers
    /\ WF_vars(HandlerStep)
    /\ WF_vars(Render)
    /\ WF_vars(SaveEffect)

(***************************************************************************)
(* The SRT settings panel (src/App.tsx)                                    *)
(***************************************************************************)
MaxPanelEvents == 2

\* mutant: the slider of the minimum duration reaching 6 seconds
SliderPositionsWide ==
    [charsPerSecond      |-> {Lit(k, 2) : k \in 6..16},
     minDuration         |-> {Lit(k, 2) : k \in 2..12},
     maxDuration         |-> {Lit(k, 2) : k \in 10..24},
     gapBetweenSubtitles |-> {Lit(k, 10) : k \in 0..10}]

\* the values parseFloat(e.target.value) can take for each range input:
\* min, max and step of the four sliders
SliderPositions ==
    [charsPerSecond      |-> {Lit(k, 2) : k \in 6..16},
     minDuration         |-> {Lit(k, 2) : k \in 2..10},
     maxDuration         |-> {Lit(k, 2) : k \in 10..24},
     gapBetweenSubtitles |-> {Lit(k, 10) : k \in 0..10}]

\* the panel as the component is created, the session without a topic
InitPanel ==
    /\ pc = "idle"
    /\ script \in {<<"a", ".">>}
    /\ options = DefaultOptions
    /\ session = INITIAL_SESSION
    /\ sessionRef = "fresh"
    /\ apiKey = <<>>
    /\ loading = "IDLE"
    /\ errorMsg = Null
    /\ updates = <<>>
    /\ effectPending = FALSE
    /\ localStorage = EmptyStorage
    /\ mounted = TRUE
    /\ lastEvent = "none"
    /\ events = 0
    /\ srtSentences = <<>>
    /\ segments = <<>>
    /\ currentTime = FromInt(0)
    /\ trace = <<>>
    /\ srt = <<>>
    /\ IdleDownload
    /\ IdleExtra
    /\ IdleSplit
    /\ IdleFmt

\* onChange of one of the four sliders
MoveSlider ==
    /\ pc = "idle"
    /\ events < MaxPanelEvents
    /\ \E f \in DOMAIN SliderPositions :
           \E v \in SliderPositions[f] :
               options' = [options EXCEPT ![f] = v]
    /\ events' = events + 1
    /\ lastEvent' = "slider"
    /\ UNCHANGED <<pc, script, session, sessionRef, apiKey, loading, errorMsg,
                   updates, effectPending, localStorage, mounted, dlVars,
                   srtSentences, segments, currentTime, trace, srt, splitVars,
                   fmtVars, extraVars>>

\* onClick of one of the three preset buttons
Preset ==
    /\ pc = "idle"
    /\ events < MaxPanelEvents
    /\ options' \in PanelOptions
    /\ events' = events + 1
    /\ lastEvent' = "preset"
    /\ UNCHANGED <<pc, script, session, sessionRef, apiKey, loading, errorMsg,
                   updates, effectPending, localStorage, mounted, dlVars,
                   srtSentences, segments, currentTime, trace, srt, splitVars,
                   fmtVars, extraVars>>

NextPanel == MoveSlider \/ Preset \/ NextDownload

SpecPanel == InitPanel /\ [][NextPanel]_vars

(***************************************************************************)
(* Properties                                                              *)
(***************************************************************************)
DigitValue(c) == CHOOSE d \in 0..9 : Digits[d + 1] = c

RECURSIVE ParseNat(_)
ParseNat(s) ==
    IF s = <<>> THEN 0
    ELSE ParseNat(SubSeq(s, 1, Len(s) - 1)) * 10 + DigitValue(s[Len(s)])

\* the fields of a timestamp H..H:MM:SS,mmm, read back from its text
TsHours(ts) == ParseNat(SubSeq(ts, 1, Len(ts) - 10))

TsMinutes(ts) == ParseNat(SubSeq(ts, Len(ts) - 8, Len(ts) - 7))

TsSecs(ts) == ParseNat(SubSeq(ts, Len(ts) - 5, Len(ts) - 4))

TsMillis(ts) == ParseNat(SubSeq(ts, Len(ts) - 2, Len(ts)))

\* a timestamp as a number of milliseconds
TimestampMs(ts) ==
    ((TsHours(ts) * 60 + TsMinutes(ts)) * 60 + TsSecs(ts)) * 1000 + TsMillis(ts)

StartMs(i) == TimestampMs(segments[i].startTime)

EndMs(i) == TimestampMs(segments[i].endTime)

Gap == options.gapBetweenSubtitles

\* the configuration is inside the documented contract
ValidOptions ==
    /\ FLess(FromInt(0), options.charsPerSecond)
    /\ FLess(FromInt(0), options.minDuration)
    /\ FLeq(options.minDuration, options.maxDuration)
    /\ FLeq(FromInt(0), Gap)

\* C1: under a valid configuration the timestamps of consecutive entries
\* never overlap: entry i+1 starts no earlier than entry i ends, and with a
\* gap of 0 it starts at the very timestamp entry i ends at.
C1_NoOverlap ==
    ValidOptions =>
        \A i \in 1..(Len(segments) - 1) :
            /\ StartMs(i + 1) >= EndMs(i)
            /\ Gap = FromInt(0) => segments[i + 1].startTime = segments[i].endTime

\* three entries chained with a gap of 0
C1_Witness ==
    /\ pc = "returned"
    /\ Len(segments) >= 3
    /\ Gap = FromInt(0)
    /\ StartMs(3) = EndMs(2) /\ StartMs(3) > StartMs(2)

\* C2 as stated: under a valid configuration every entry's end timestamp is
\* strictly later than its start timestamp.
C2_EndAfterStart ==
    ValidOptions => \A i \in 1..Len(segments) : EndMs(i) > StartMs(i)

\* C2 amended: with a minDuration of at least 0.002 s (two units of the
\* millisecond resolution of the timestamps) every entry's end timestamp is
\* strictly later than its start timestamp.
C2_EndAfterStartFrom2ms ==
    (ValidOptions /\ FLeq(Lit(2, 1000), options.minDuration)) =>
        \A i \in 1..Len(segments) : EndMs(i) > StartMs(i)

\* three entries of 2 ms each, every one ending after it starts
C2_Witness ==
    /\ pc = "returned"
    /\ options.minDuration = Lit(2, 1000)
    /\ Len(segments) >= 3
    /\ EndMs(3) > StartMs(3)

\* C3: one entry per fragment of splitIntoSentences(script), in the same
\* order, numbered 1, 2, .., N without gap or repetition.
C3_OneEntryPerFragment ==
    LET frags == splitIntoSentences(script)
    IN  /\ Len(segments) <= Len(frags)
        /\ \A i \in 1..Len(segments) :
               segments[i].index = i /\ segments[i].text = frags[i]
        /\ pc = "returned" => Len(segments) = Len(frags)

\* a returned run of three distinct fragments, one of them a comma split
C3_Witness ==
    /\ pc = "returned"
    /\ Len(segments) >= 3
    /\ segments[3].index = 3
    /\ segments[1].text # segments[2].text
    /\ Len(SentencesOf(script)) < Len(segments)

\* length / charsPerSecond clamped into [minDuration, maxDuration]
Clamped(length, opts) ==
    LET q == FDiv(FromInt(length), opts.charsPerSecond)
    IN  IF FLess(q, opts.minDuration) THEN opts.minDuration
        ELSE IF FLess(opts.maxDuration, q) THEN opts.maxDuration
        ELSE q

\* C4: the duration given to each fragment is length / charsPerSecond
\* clamped into [minDuration, maxDuration], so never below minDuration and
\* never above maxDuration; the printed end minus the printed start is that
\* duration within the tolerance of the timestamps, one millisecond.
C4_DurationClamped ==
    ValidOptions =>
        \A i \in 1..Len(trace) :
            /\ trace[i].duration = Clamped(Len(segments[i].text), options)
            /\ FLeq(options.minDuration, trace[i].duration)
            /\ FLeq(trace[i].duration, options.maxDuration)
            /\ EndMs(i) - StartMs(i) >=
                   Floor(FMulInt(options.minDuration, 1000)) - 1
            /\ EndMs(i) - StartMs(i) <=
                   Floor(FMulInt(options.maxDuration, 1000)) + 1

\* one run in which a fragment got minDuration, another maxDuration and a
\* third its unclamped reading time
C4_Witness ==
    /\ Len(trace) >= 3
    /\ FLess(options.minDuration, options.maxDuration)
    /\ \E i, j, k \in 1..Len(trace) :
           /\ trace[i].duration = options.minDuration
           /\ trace[j].duration = options.maxDuration
           /\ FLess(options.minDuration, trace[k].duration)
           /\ FLess(trace[k].duration, options.maxDuration)

\* the entries carry the timestamps of the clock: each starts at the time
\* of its forEach call and ends at that time plus its duration
TimestampsOfClock ==
    /\ Len(trace) = Len(segments)
    /\ \A i \in 1..Len(trace) :
           /\ segments[i].startTime = formatSRTTime(trace[i].time)
           /\ segments[i].endTime =
                  formatSRTTime(FAdd(trace[i].time, trace[i].duration))

\* C5 as stated: the first entry starts at 0, every entry ends at its start
\* plus its duration, and every later entry starts exactly at the previous
\* entry's end plus the gap.
C5_Recurrence ==
    /\ TimestampsOfClock
    /\ Len(trace) >= 1 => trace[1].time = FromInt(0)
    /\ \A i \in 1..(Len(trace) - 1) :
           trace[i + 1].time =
               FAdd(FAdd(trace[i].time, trace[i].duration), Gap)

\* C5 amended: the first entry starts at 0, every entry ends at its start
\* plus its duration, and every later entry starts at the previous entry's
\* START plus the sum (duration + gap), never before the previous entry's
\* end; in double arithmetic that is not always the previous end plus the gap.
C5_ClockRecurrence ==
    /\ TimestampsOfClock
    /\ Len(trace) >= 1 => trace[1].time = FromInt(0)
    /\ \A i \in 1..(Len(trace) - 1) :
           /\ trace[i + 1].time =
                  FAdd(trace[i].time, FAdd(trace[i].duration, Gap))
           /\ FLeq(FAdd(trace[i].time, trace[i].duration), trace[i + 1].time)

\* a third entry whose start is not the second entry's end plus the gap
C5_Witness ==
    /\ Len(trace) >= 3
    /\ trace[3].time # FAdd(FAdd(trace[2].time, trace[2].duration), Gap)
    /\ trace[3].time = FAdd(trace[2].time, FAdd(trace[2].duration, Gap))

\* the blocks of the entries from the i-th on, a blank line before each
\* block but the first
RECURSIVE BlocksFrom(_, _)
BlocksFrom(segs, i) ==
    IF i > Len(segs) THEN <<>>
    ELSE (IF i > 1 THEN <<"\n">> ELSE <<>>)
         \o NumberToString(segs[i].index) \o <<"\n">>
         \o segs[i].startTime \o <<" ", "-", "-", ">", " ">> \o segs[i].endTime
         \o <<"\n">>
         \o segs[i].text \o <<"\n">>
         \o BlocksFrom(segs, i + 1)

\* C6: the returned string is the blocks of the entries in order (number,
\* newline, start --> end, newline, text, newline), one blank line between
\* consecutive blocks and none before the first or after the last.
C6_Serialized == pc = "returned" => srt = BlocksFrom(segments, 1)

\* a returned string of at least two blocks
C6_Witness ==
    /\ pc = "returned"
    /\ Len(segments) >= 2
    /\ srt # <<>>
    /\ srt[Len(srt)] = "\n" /\ srt[Len(srt) - 1] # "\n"

\* the fragments the text is cut into when it is cut after every run of
\* '.', '!' or '?' that whitespace follows, each run staying at the end of
\* the text before it; fragments are trimmed, and dropped when empty
RECURSIVE CutAfterRuns(_, _, _)
CutAfterRuns(s, p, acc) ==
    LET cuts == {e \in (p + 1)..(Len(s) + 1) :
                    /\ s[e - 1] \in WhiteSpace
                    /\ e > Len(s) \/ s[e] \notin WhiteSpace
                    /\ \E k \in p..(e - 2) :
                           /\ s[k] \in Punct
                           /\ \A j \in (k + 1)..(e - 1) : s[j] \in WhiteSpace}
        e    == CHOOSE x \in cuts : \A y \in cuts : x <= y
        piece(a, b) == IF Trim(SubSeq(s, a, b)) = <<>> THEN <<>>
                       ELSE <<Trim(SubSeq(s, a, b))>>
    IN  IF cuts = {} THEN acc \o piece(p, Len(s))
        ELSE CutAfterRuns(s, e, acc \o piece(p, e - 1))

\* the punctuation of a text, in order
PunctOf(s) == SelectSeq(s, LAMBDA c : c \in Punct)

RECURSIVE Concat(_)
Concat(strs) == IF strs = <<>> THEN <<>> ELSE Head(strs) \o Concat(Tail(strs))

\* C7 as stated: the sentences are the text cut after every run of '.', '!'
\* or '?' followed by whitespace and nowhere else, each run staying at the
\* end of the fragment before it, so that no punctuation of the input is
\* dropped or moved.
C7_CutAfterPunctuation ==
    pc \in {"result", "returned"} =>
        /\ sentences = CutAfterRuns(script, 1, <<>>)
        /\ PunctOf(Concat(sentences)) = PunctOf(script)

\* the pieces of a sentence cut at every comma followed by whitespace, the
\* comma kept at the end of the piece before it
RECURSIVE CutAtCommas(_, _, _)
CutAtCommas(s, p, acc) ==
    LET cuts == {k \in p..(Len(s) - 1) : s[k] = "," /\ s[k + 1] \in WhiteSpace}
        k    == CHOOSE x \in cuts : \A y \in cuts : x <= y
    IN  IF cuts = {} THEN Append(acc, SubSeq(s, p, Len(s)))
        ELSE CutAtCommas(s, RunEnd(s, k + 1, WhiteSpace),
                         Append(acc, SubSeq(s, p, k)))

FindFrom(text, frag, pos) ==
    LET at == {q \in pos..(Len(text) - Len(frag) + 1) :
                  SubSeq(text, q, q + Len(frag) - 1) = frag}
    IN  IF at = {} THEN 0 ELSE CHOOSE q \in at : \A r \in at : q <= r

\* the fragments from the i-th on occur in text from pos on, one after
\* the other
RECURSIVE InOrderFrom(_, _, _, _)
InOrderFrom(frags, i, text, pos) ==
    IF i > Len(frags) THEN TRUE
    ELSE LET q == FindFrom(text, frags[i], pos)
         IN  q # 0 /\ InOrderFrom(frags, i + 1, text, q + Len(frags[i]))

\* C9: splitIntoSentences has a value for every script (an array of at
\* most as many fragments as the script has characters); every fragment it
\* returns is non-empty, starts and ends with a character that is not
\* whitespace, and the fragments lie in the script one after the other in
\* the order returned.
C9_TrimmedInOrder ==
    /\ Len(splitIntoSentences(script)) <= Len(script)
    /\ pc = "returned" =>
           /\ \A i \in 1..Len(result) :
                  /\ result[i] # <<>>
                  /\ result[i][1] \notin WhiteSpace
                  /\ result[i][Len(result[i])] \notin WhiteSpace
           /\ InOrderFrom(result, 1, script, 1)

\* two fragments returned from a script that ends in whitespace
C9_Witness ==
    /\ pc = "returned"
    /\ Len(result) >= 2
    /\ script[Len(script)] \in WhiteSpace
    /\ result[1] # result[2]

\* C10 as stated: the fields of the returned text are minutes and secs in
\* 0..59, millis in 0..999, hours = floor(seconds / 3600) with no reduction
\* modulo 24, and together they are the input truncated to whole
\* milliseconds.
C10_FieldsOfInput ==
    pc = "returned" =>
        /\ TsMinutes(formatted) \in 0..59
        /\ TsSecs(formatted) \in 0..59
        /\ TsMillis(formatted) \in 0..999
        /\ TsHours(formatted) = Floor(seconds) \div 3600
        /\ TimestampMs(formatted) = Floor(BigMul(seconds, 1000))

(***************************************************************************)
(* Shape of the timestamp                                                  *)
(***************************************************************************)
IsDigits(s) == \A i \in 1..Len(s) : \E d \in 1..10 : Digits[d] = s[i]

\* the text is HH:MM:SS,mmm: two digits, colon, two digits, colon, two
\* digits, comma, three digits
ShapeHHMMSSmmm(ts) ==
    /\ Len(ts) = 12
    /\ IsDigits(SubSeq(ts, 1, 2)) /\ ts[3] = ":"
    /\ IsDigits(SubSeq(ts, 4, 5)) /\ ts[6] = ":"
    /\ IsDigits(SubSeq(ts, 7, 8)) /\ ts[9] = ","
    /\ IsDigits(SubSeq(ts, 10, 12))

\* C11 as stated: for every seconds value >= 0, with no upper bound, the
\* returned text is exactly 12 characters in the shape HH:MM:SS,mmm.
C11_TwelveChars == pc = "returned" => ShapeHHMMSSmmm(formatted)

\* C11 amended: the returned text is exactly 12 characters in the shape
\* HH:MM:SS,mmm for every seconds value below 360000 (100 hours); from 100
\* hours on the hours field has all its digits, the text is longer than 12
\* characters and only its last ten characters keep the shape :MM:SS,mmm.
C11_TwelveCharsBelow100h ==
    pc = "returned" =>
        LET n    == Len(formatted)
            tail == SubSeq(formatted, n - 9, n)
        IN  /\ Floor(seconds) < 360000 => ShapeHHMMSSmmm(formatted)
            /\ Floor(seconds) >= 360000 =>
                   /\ n = 10 + Len(NumberToString(Floor(seconds) \div 3600))
                   /\ n > 12
            /\ IsDigits(SubSeq(formatted, 1, n - 10))
            /\ ShapeHHMMSSmmm(<<"0", "0">> \o tail)

\* the last millisecond below 100 hours, rendered in 12 characters
C11_Witness ==
    /\ pc = "returned"
    /\ Floor(seconds) = 359999
    /\ formatted = <<"9", "9", ":", "5", "9", ":", "5", "9", ",", "9", "9", "9">>

\* C12: the empty text gives no fragment from splitIntoSentences and the
\* empty string from generateSRT, under every configuration.
C12_EmptyInput ==
    script = <<>> =>
        /\ SentencesOf(script) = <<>>
        /\ splitIntoSentences(script) = <<>>
        /\ srtSentences = <<>> /\ segments = <<>>
        /\ currentTime = FromInt(0)
        /\ srt = <<>>

\* generateSRT has returned for the empty text under a configuration other
\* than the defaults
C12_Witness ==
    /\ pc = "returned"
    /\ script = <<>>
    /\ options # DefaultOptions
    /\ srt = <<>>

\* C13 as stated: with the default configuration the greeting of the
\* round-trip scenario gives exactly 2 entries, the first from 00:00:00,000
\* to 00:00:02,000 and the second starting at 00:00:02,300.
C13_RoundTrip ==
    (pc = "returned" /\ script = Greeting /\ options = DefaultOptions) =>
        /\ Len(segments) = 2
        /\ segments[1].startTime =
               <<"0", "0", ":", "0", "0", ":", "0", "0", ",", "0", "0", "0">>
        /\ segments[1].endTime =
               <<"0", "0", ":", "0", "0", ":", "0", "2", ",", "0", "0", "0">>
        /\ segments[2].startTime =
               <<"0", "0", ":", "0", "0", ":", "0", "2", ",", "3", "0", "0">>

\* C14 as stated: a call with charsPerSecond zero or negative is rejected:
\* it builds no entry and never returns subtitle text.
C14_NonPositiveRateRejected ==
    FLeq(options.charsPerSecond, FromInt(0)) =>
        /\ segments = <<>>
        /\ pc # "returned"
        /\ srt = <<>>

\* C15 as stated: downloadSRT releases the object URL it created on every
\* path: once control has left downloadSRT, by its return or by an
\* exception of a step after the creation, no created URL is left unrevoked.
C15_UrlRevokedOnEveryPath ==
    pc \in {"alert", "catch", "idle"} => objectUrls = {}

\* no state update and no effect is pending
Quiescent == mounted /\ updates = <<>> /\ ~effectPending

\* the names of the members of a JSON text
MemberNames(text) == {text[i][1] : i \in 1..Len(text)}

\* C16: the snapshot stored under 'mvp_script_session' never has an apiKey
\* member, whatever the session has been through.
C16_NoApiKeyInSnapshot ==
    SessionKey \in DOMAIN localStorage =>
        "apiKey" \notin MemberNames(localStorage[SessionKey])

\* a session holding a saved API key and a script has been written out
C16_Witness ==
    /\ Quiescent
    /\ "apiKey" \in DOMAIN session
    /\ session.apiKey = <<"k">>
    /\ session.originalScript = <<"a">>
    /\ SessionKey \in DOMAIN localStorage
    /\ JsonParse(localStorage[SessionKey]).originalScript = <<"a">>

\* C17: whenever nothing is pending, the stored snapshot is the current
\* session without its apiKey field, also after a confirmed Clear.
C17_SavedWhenQuiescent ==
    Quiescent =>
        /\ SessionKey \in DOMAIN localStorage
        /\ JsonParse(localStorage[SessionKey]) = SessionWithoutApiKey(session)

\* quiescent after a confirmed Clear of a session that had been saved with
\* a script: the stored snapshot is the initial session again
C17_Witness ==
    /\ Quiescent
    /\ lastEvent = "clear"
    /\ events >= 2
    /\ session = INITIAL_SESSION
    /\ sessionRef = "INITIAL_SESSION"
    /\ localStorage[SessionKey] = JsonStringify(INITIAL_SESSION)
    /\ ApiKeyKey \in DOMAIN localStorage

\* generateSRT run on its own, from the i-th sentence on
RECURSIVE SegmentsAlone(_, _, _, _, _)
SegmentsAlone(sents, opts, i, time, segs) ==
    IF i > Len(sents) THEN segs
    ELSE LET duration == Duration(Len(sents[i]), opts)
         IN  SegmentsAlone(sents, opts, i + 1,
                           Advance(time, duration, opts.gapBetweenSubtitles),
                           Append(segs, Segment(sents[i], i - 1, time, duration)))

\* the string generateSRT returns when it is the only invocation
ResultAlone(script_, opts) ==
    Serialize(SegmentsAlone(splitIntoSentences(script_), opts, 1, FromInt(0), <<>>))

InLoop ==
    pc \in {"while", "analyzeScriptAsPD", "pause before improve",
            "improveScriptWithAnalysis", "pause after improve",
            "pause before retry"}

\* the counts of one run of the loop
AtMostFivePasses ==
    /\ iteration <= maxIterations
    /\ analyzeCalls <= maxIterations
    /\ improveCalls <= maxIterations
    /\ improveCalls <= analyzeCalls

\* C19: whatever scores and errors the API calls return, one run of the
\* improvement loop makes at most maxIterations analysis calls and at most
\* maxIterations improvement calls, and once entered the loop is left
C19_BoundedAndTerminates == []AtMostFivePasses /\ (InLoop ~> ~InLoop)

\* five analyses below the threshold, five improvements, and the loop is left
C19_Witness ==
    /\ analyzeCalls = maxIterations
    /\ improveCalls = maxIterations
    /\ pc = "suggestTopicsFromScript"

\* C20: the goal is reported as reached only for a hookingScore of 8 or more,
\* and handleSuggest announces an improvement to 8 or more only when the
\* latest analysis has a hookingScore of 8 or more
C20_GoalIsEight ==
    \A i \in DOMAIN alerts :
        /\ alerts[i].kind = "goal reached" => alerts[i].score >= 8
        /\ alerts[i].kind = "improved to 8 or more" =>
               /\ alerts[i].analysis # Null
               /\ HookingScore(alerts[i].analysis) >= 8

\* the four fields handleSuggest writes on success
SuggestFields == {"originalScript", "suggestedTopics", "selectedTopic",
                  "generatedNewScript"}

\* a step in which the pending analysis or improvement call fails
CallFails ==
    /\ pc \in {"analyzeScriptAsPD", "improveScriptWithAnalysis"}
    /\ pc' \in {"pause before retry", "idle"}

\* what a failed call of the loop does: before the last pass it waits and the
\* loop goes on; in the last pass the error reaches handleSuggest, which
\* queues no setSession
FailureHandled ==
    /\ CallFails =>
           IF iteration < maxIterations
           THEN pc' = "pause before retry" /\ updates' = updates
           ELSE /\ pc' = "idle"
                /\ \A i \in DOMAIN updates' :
                       updates'[i].op \in {"setErrorMsg", "setLoading"}
    /\ pc = "pause before retry" => pc' \in {"pause before retry", "while"}
    /\ (pc = "pause before retry" /\ pc' = "while") => LoopGuard(iteration)

\* the error of the chain has been reported and rendered
ErrorReported ==
    /\ pc = "idle"
    /\ Flushed
    /\ alerts # <<>>
    /\ alerts[Len(alerts)].kind = "error"

\* C21: a failed analysis or improvement in passes 1 to 4 is followed by a
\* wait and the next pass; only a failure in pass 5 reaches handleSuggest,
\* and then originalScript, suggestedTopics, selectedTopic and
\* generatedNewScript of the session are those of the click
C21_OnlyLastFailureThrown ==
    /\ [][FailureHandled]_vars
    /\ [](ErrorReported =>
              \A f \in SuggestFields : session[f] = closure[f])

\* the fifth pass failed and was reported after an earlier pass had failed
\* at its analysis and the loop had gone on
C21_Witness ==
    /\ ErrorReported
    /\ iteration = maxIterations
    /\ analyzeCalls = maxIterations
    /\ improveCalls < maxIterations - 1
    /\ session.history # <<>>

\* C22: no entry of the local storage ever holds the API key, and in the
\* first quiescent state after a reload the session's apiKey and the key
\* field are empty
C22_KeyNeverPersisted ==
    /\ \A k \in DOMAIN localStorage :
           /\ k = ApiKeyKey => ~Truthy(localStorage[k])
           /\ k = SessionKey => "apiKey" \notin MemberNames(localStorage[k])
    /\ (Quiescent /\ lastEvent = "reload") =>
           /\ apiKey = <<>>
           /\ "apiKey" \in DOMAIN session => session.apiKey = <<>>

\* the step of the first commit after a start of the page
Mounting == ~mounted /\ mounted'

\* C27: a session stored before the start is not replaced by the initial
\* session while the page mounts, and the first quiescent session after the
\* start is the stored one, with an empty apiKey
C27_StoredSessionKept ==
    /\ [][(Mounting /\ SessionKey \in DOMAIN localStorage) =>
              localStorage'[SessionKey] = localStorage[SessionKey]]_vars
    /\ []((Quiescent /\ lastEvent = "reload") =>
              /\ JsonParse(localStorage[SessionKey]) = SessionWithoutApiKey(session)
              /\ session.apiKey = <<>>)

\* the positions at which a request to the external API is in flight
PendingCalls ==
    {"handleSuggest: analyzeScriptAsPD", "analyzeScriptAsPD",
     "improveScriptWithAnalysis", "suggestTopicsFromScript"}

\* C23: in the chain of handleSuggest no request is issued in the step in
\* which the previous one returns: a wait lies between any two requests
C23_PacedCalls ==
    [][~(pc \in PendingCalls /\ pc' \in PendingCalls /\ pc' # pc)]_vars

ImproveScriptPending == improveScriptPc # "idle"

TitlePending == titlePc # "idle"

RequestPending == ImproveScriptPending \/ TitlePending

\* C24: in every rendered state loading is 'IDLE' exactly when no request is
\* in flight, and a handler starts a request only while the other handler
\* has none in flight
C24_IdleIffNoRequest ==
    /\ [](Flushed => (loading = "IDLE" <=> ~RequestPending))
    /\ [][/\ (~ImproveScriptPending /\ ImproveScriptPending') => ~TitlePending
          /\ (~TitlePending /\ TitlePending') => ~ImproveScriptPending]_vars

C28_ClearIsFinal ==
    (Quiescent /\ lastEvent = "clear") => session = INITIAL_SESSION

\* the configuration contract of generateSRT
InContract(o) ==
    /\ FLess(FromInt(0), o.charsPerSecond)
    /\ FLess(FromInt(0), o.minDuration)
    /\ FLeq(o.minDuration, o.maxDuration)
    /\ FLeq(FromInt(0), o.gapBetweenSubtitles)

\* C29: whatever sliders are moved and presets pressed, the settings of the
\* panel, which handleGenerateSRT hands to generateSRT as they are, satisfy
\* charsPerSecond > 0, 0 < minDuration <= maxDuration and gap >= 0
C29_PanelInContract == InContract(options)

\* minDuration moved up to 5 and maxDuration down to 5, then generateSRT is
\* called
C29_Witness ==
    /\ pc = "generateSRT"
    /\ options.minDuration = FromInt(5)
    /\ options.maxDuration = FromInt(5)

====
